---- MODULE Spec2Model ----
(***************************************************************************)
(* State-machine model of the Voice Live session relay (ACSMediaHandler), *)
(* its tool registry and its session registry.                            *)
(*                                                                         *)
(* One relay is modelled.  Every handler of the receive loop is one       *)
(* action: the coroutine switches of asyncio happen only at an await that *)
(* really suspends, and the sends of a handler are taken to complete      *)
(* without suspending, except in the background-context task, whose       *)
(* suspension points (executor call, context-injection send) are explicit.*)
(***************************************************************************)
EXTENDS Naturals, Sequences, FiniteSets, TLC

(***************************************************************************)
(* Bounds of the model.                                                    *)
(***************************************************************************)
MaxTranscripts == 2   \* entries the transcript buffer may hold
MaxUuid == 2          \* call ids _generate_call_id may hand out
MaxTasks == 3         \* context-refresh tasks that may be created
MaxSchedules == 3     \* calls SpecSched makes to schedule a refresh
MaxCount == 2         \* the history counters saturate here
MaxQueue == 2         \* audio frames the client sends

(***************************************************************************)
(* Values.                                                                 *)
(***************************************************************************)
None == "None"
PrimaryVoice == "en-US-Ava:DragonHDLatestNeural"
FallbackVoice == "en-US-Fallback"
FallbackVoiceConfigs == {None, PrimaryVoice, FallbackVoice}
SessionIds == {"S1", "S2"}
DefaultPatientId == "PATIENT001"
MOCK_PATIENTS == {"PATIENT001", "PATIENT002"}

Min(a, b) == IF a < b THEN a ELSE b
Max(a, b) == IF a > b THEN a ELSE b
Bump(n, k) == Min(n + k, MaxCount)

(***************************************************************************)
(* Voice Readback Codec.  An email is a sequence of characters.            *)
(***************************************************************************)
Email1 == <<"a", "@", "b", ".", "i", "o">>
Email2 == <<"c", "_", "d", "@", "b", ".", "i", "o">>
Emails == {Email1, Email2}
Letters == {"a", "b", "c", "d", "i", "o"}
Digits == {"1"}

EMAIL_PUNCT_ALIAS(ch) ==
  CASE ch = "_" -> "underscore"
    [] ch = "." -> "dot"
    [] ch = "-" -> "hyphen"
    [] ch = "@" -> "at"
    [] OTHER -> None

LETTER_NAME_ALIAS(ch) ==
  CASE ch = "a" -> "ay"
    [] ch = "b" -> "bee"
    [] ch = "c" -> "see"
    [] ch = "d" -> "dee"
    [] ch = "i" -> "eye"
    [] ch = "o" -> "oh"
    [] OTHER -> None

RECURSIVE JoinTokens(_, _)
\* sep.join(tokens), as the sequence of the pieces it concatenates
JoinTokens(tokens, sep) ==
  IF Len(tokens) <= 1 THEN tokens
  ELSE <<Head(tokens), sep>> \o JoinTokens(Tail(tokens), sep)

SpokenToken(ch) ==
  IF ch \in Letters \cup Digits THEN ch
  ELSE IF EMAIL_PUNCT_ALIAS(ch) # None THEN EMAIL_PUNCT_ALIAS(ch)
  ELSE ch

email_to_spoken_tokens(email) ==
  JoinTokens([i \in 1..Len(email) |-> SpokenToken(email[i])], ", ")

LetterBreak == [tag |-> "break", time |-> Max(120, Min(200, 200 - 40))]
TokenBreak == [tag |-> "break", time |-> 200]

SsmlChar(ch) ==
  IF ch \in Letters
    THEN <<[tag |-> "sub", alias |-> LETTER_NAME_ALIAS(ch), text |-> ch], LetterBreak>>
  ELSE IF ch \in Digits
    THEN <<[tag |-> "say-as", text |-> ch], LetterBreak>>
  ELSE IF EMAIL_PUNCT_ALIAS(ch) # None
    THEN <<[tag |-> "sub", alias |-> EMAIL_PUNCT_ALIAS(ch), text |-> ch], TokenBreak>>
  ELSE <<[tag |-> "say-as", text |-> ch], TokenBreak>>

RECURSIVE SsmlParts(_)
SsmlParts(email) ==
  IF email = <<>> THEN <<>> ELSE SsmlChar(Head(email)) \o SsmlParts(Tail(email))

email_to_ssml(email) ==
  IF email = <<>> THEN <<"<speak>", "</speak>">>
  ELSE LET parts == SsmlParts(email)
       IN <<"<speak>">> \o SubSeq(parts, 1, Len(parts) - 1) \o <<"</speak>">>

\* A user transcript: whether it is a string, and the email-like tokens it
\* holds in text order; _EMAIL_REGEX.search returns the leftmost one.
Transcripts ==
  { [is_str |-> FALSE, emails |-> <<>>],
    [is_str |-> TRUE, emails |-> <<>>],
    [is_str |-> TRUE, emails |-> <<Email1>>],
    [is_str |-> TRUE, emails |-> <<Email2>>],
    [is_str |-> TRUE, emails |-> <<Email2, Email1>>] }

EmailSearch(transcript) ==
  IF transcript.is_str /\ transcript.emails # <<>> THEN Head(transcript.emails)
  ELSE <<>>

NoPendingReadback == [email |-> <<>>, fallback |-> <<>>]

(***************************************************************************)
(* Upstream commands.                                                      *)
(***************************************************************************)
session_config(voice_name) == [type |-> "session.update", voice |-> voice_name]

ResponseCreate == [type |-> "response.create"]

ReadbackCreate(ssml) ==
  [type |-> "response.create", modalities |-> <<"audio">>,
   instructions |-> <<"Output exactly this SSML:", ssml>>, cancel_previous |-> TRUE]

FallbackCreate(fallback) ==
  [type |-> "response.create", modalities |-> <<"audio">>,
   instructions |-> <<"Say exactly:", fallback>>, cancel_previous |-> TRUE]

ScopedCreate(modalities) == [type |-> "response.create", modalities |-> modalities]

FunctionCallItem(call_id, name, args) ==
  [type |-> "conversation.item.create", item |-> "function_call",
   call_id |-> call_id, name |-> name, arguments |-> args]

FunctionCallOutputItem(call_id, output) ==
  [type |-> "conversation.item.create", item |-> "function_call_output",
   call_id |-> call_id, output |-> output]

BackgroundMessage(payload) ==
  [type |-> "conversation.item.create", item |-> "message", role |-> "system",
   payload |-> payload]

IsResponseCreate(m) == m.type = "response.create"
IsSessionUpdate(m) == m.type = "session.update"
IsItem(m, kind) == m.type = "conversation.item.create" /\ m.item = kind

NumResponseCreate(q) == Cardinality({i \in 1..Len(q) : IsResponseCreate(q[i])})
NumSessionUpdate(q) == Cardinality({i \in 1..Len(q) : IsSessionUpdate(q[i])})
IsPlainCreate(m) == m = ResponseCreate
NumPlainCreate(q) == Cardinality({i \in 1..Len(q) : IsPlainCreate(q[i])})

(***************************************************************************)
(* Tool Registry (telehealth_functions, the one the relay imports).        *)
(* Arguments are a record of the keys a caller may pass; Absent marks a    *)
(* key that is not in the mapping.                                         *)
(***************************************************************************)
Absent == "Absent"
NonStr == "NonStr"          \* a value that is not a string
Raised == "Raised"          \* an exception left the call
FUNCTION_HANDLERS ==
  {"schedule_appointment", "get_patient_history", "request_prescription_refill"}

RequiredParams(name) ==
  CASE name = "schedule_appointment" -> {"patient_id", "appointment_type", "preferred_date"}
    [] name = "get_patient_history" -> {"patient_id"}
    [] name = "request_prescription_refill" -> {"patient_id", "medication_name"}
    [] OTHER -> {}

ArgKeys(args) == {k \in DOMAIN args : args[k] # Absent}

UnknownFunctionApology == "I'm sorry, I don't know how to help with that tele-health request right now."
HandlerErrorApology ==
  "I encountered an issue while processing that tele-health request. Please try again in a moment."

get_patient_history_handler(patient_id) ==
  IF patient_id \notin MOCK_PATIENTS
    THEN "I could not find a health history for that patient ID."
    ELSE "history of " \o patient_id

\* appointment_type.lower() raises AttributeError on a value that is not a string
schedule_appointment_handler(args) ==
  IF args.appointment_type = NonStr THEN Raised ELSE "done schedule_appointment"

\* handler(**arguments): TypeError unless the keys are the parameters, then
\* whatever the handler returns or raises
call_handler(function_name, args) ==
  IF ArgKeys(args) # RequiredParams(function_name) THEN Raised
  ELSE IF function_name = "get_patient_history"
    THEN get_patient_history_handler(args.patient_id)
  ELSE IF function_name = "schedule_appointment"
    THEN schedule_appointment_handler(args)
  ELSE "done " \o function_name

\* variant: the handler is called outside any try
handle_function_call_propagates(function_name, args) ==
  IF function_name \notin FUNCTION_HANDLERS THEN UnknownFunctionApology
  ELSE call_handler(function_name, args)

handle_function_call(function_name, args) ==
  IF function_name \notin FUNCTION_HANDLERS THEN UnknownFunctionApology
  ELSE LET result == call_handler(function_name, args)
       IN IF result = Raised THEN HandlerErrorApology ELSE result

build_patient_context(patient_id) ==
  IF patient_id \in MOCK_PATIENTS THEN "overview of " \o patient_id
  ELSE "No matching patient record found."

get_patient_profile(patient_id) ==
  IF patient_id \in MOCK_PATIENTS THEN "profile of " \o patient_id ELSE None

NoPayload == [patientId |-> None, profile |-> None, overview |-> None]

(***************************************************************************)
(* State.                                                                  *)
(***************************************************************************)
VARIABLES
  ws,                         \* self.ws: "NONE" (unset), or the connection's state
  rx,                         \* _receiver_loop: "idle", "running", "done"
  fallback_voice,             \* config AZURE_VOICE_FALLBACK_NAME
  session_id,
  voice_in_use,
  voice_fallback_used,
  response_in_progress,
  sent_auto_greeting,
  pending_background_payload,
  last_email_readback,
  pending_email_readback,
  transcripts,                \* the roles of the buffered entries, in order
  ACTIVE_HANDLERS,            \* session id -> relay registered under it
  uuid_count,                 \* call ids generated so far
  tx,                         \* _sender_loop: "idle", "running", "done"
  send_queue,                 \* messages waiting in the outbound queue, oldest first
  enqueued,                   \* every message put on the queue, in the order of the puts
  drained,                    \* every message _sender_loop took, in order, and whether it was written
  cosmos,                     \* the Cosmos DB container: document id -> transcripts stored under it
  config,                     \* AZURE_VOICE_LIVE_ENDPOINT and VOICE_LIVE_MODEL as given to __init__
  connect_task,               \* the task web_ws creates for connect: "pending", "done", "failed"
  incoming_websocket,         \* the client's socket: "OPEN" or "CLOSED"
  patient_id,
  patient_profile,
  patient_context,
  context_task,               \* 0 (None) or the index of the task in tasks
  tasks,                      \* the refresh tasks created, in creation order
  sent,                       \* the commands the last step wrote upstream
  last,                       \* the last step: the frame dispatched or the call made
  outstanding,                \* response.create sent and not yet ended by a terminal event
  mrr_since_terminal,         \* response.create of _maybe_request_response since the last terminal event
  mrr_since_clear,            \* the same, since the flag was last cleared
  voice_switches,             \* session.update sent by _switch_voice
  switches_since_session,     \* the same, since the last session.created
  rb_count,                   \* readback commands sent for last_email_readback
  rb_open,                    \* whether the connection was open when it was detected
  rb_seen                     \* user transcripts in a row it has been detected in

relay_vars ==
  <<ws, rx, fallback_voice, session_id, voice_in_use, voice_fallback_used,
    response_in_progress, sent_auto_greeting, pending_background_payload,
    last_email_readback, pending_email_readback, transcripts, ACTIVE_HANDLERS,
    uuid_count, tx, send_queue, incoming_websocket, enqueued, drained, cosmos, config,
    connect_task>>
tx_vars ==
  <<tx, send_queue, incoming_websocket, enqueued, drained, cosmos, config, connect_task>>
ctx_vars == <<patient_id, patient_profile, patient_context, context_task, tasks>>
obs_vars ==
  <<sent, last, outstanding, mrr_since_terminal, mrr_since_clear, voice_switches,
    switches_since_session, rb_count, rb_open, rb_seen>>
vars == <<relay_vars, ctx_vars, obs_vars>>

NoHandler == "NoHandler"
\* an empty buffer is never stored, so <<>> stands for no document
NoDocument == <<>>
\* the ids a conversation document is stored under: a session id, or a
\* generated guid when the relay has none
DocumentIds == SessionIds \cup {"guid"}
Self == "A"

\* the configuration of a deployment that set both values
DefaultConfig == [endpoint |-> "https://voicelive.example", model |-> "gpt-4o-mini"]

\* ACSMediaHandler.__init__, given one of the configurations cfgs
InitWith(cfgs) ==
  /\ config \in cfgs
  /\ connect_task = "pending"
  /\ ws = "NONE"
  /\ rx = "idle"
  /\ fallback_voice \in FallbackVoiceConfigs
  /\ session_id = None
  /\ voice_in_use = PrimaryVoice
  /\ voice_fallback_used = FALSE
  /\ response_in_progress = FALSE
  /\ sent_auto_greeting = FALSE
  /\ pending_background_payload = NoPayload
  /\ last_email_readback = <<>>
  /\ pending_email_readback = NoPendingReadback
  /\ transcripts = <<>>
  /\ ACTIVE_HANDLERS = [k \in SessionIds |-> NoHandler]
  /\ uuid_count = 0
  /\ tx = "idle"
  /\ send_queue = <<>>
  /\ enqueued = <<>>
  /\ drained = <<>>
  /\ cosmos = [k \in DocumentIds |-> NoDocument]
  /\ incoming_websocket = "OPEN"
  /\ patient_id = None
  /\ patient_profile = None
  /\ patient_context = None
  /\ context_task = 0
  /\ tasks = <<>>
  /\ sent = <<>>
  /\ last = [type |-> "init"]
  /\ outstanding = 0
  /\ mrr_since_terminal = 0
  /\ mrr_since_clear = 0
  /\ voice_switches = 0
  /\ switches_since_session = 0
  /\ rb_count = 0
  /\ rb_open = FALSE
  /\ rb_seen = 0

Init == InitWith({DefaultConfig})

\* variant: any connection object counts as connected, whatever its state
_is_ws_connected_any_ws == ws # "NONE"

_is_ws_connected == ws = "OPEN"

_register_handler(reg, sid, handler) == [reg EXCEPT ![sid] = handler]

_unregister_handler(reg, sid) ==
  IF sid # None THEN [reg EXCEPT ![sid] = NoHandler] ELSE reg

(***************************************************************************)
(* The relay fields a handler of the receive loop reads and writes, as a   *)
(* record the handler's statements transform in order.  raised: an         *)
(* exception is propagating; returned: the handler left _receiver_loop.    *)
(***************************************************************************)
Cur ==
  [ session_id |-> session_id,
    voice_in_use |-> voice_in_use,
    voice_fallback_used |-> voice_fallback_used,
    response_in_progress |-> response_in_progress,
    sent_auto_greeting |-> sent_auto_greeting,
    pending_background_payload |-> pending_background_payload,
    last_email_readback |-> last_email_readback,
    pending_email_readback |-> pending_email_readback,
    transcripts |-> transcripts,
    ACTIVE_HANDLERS |-> ACTIVE_HANDLERS,
    sent |-> <<>>,
    raised |-> FALSE,
    returned |-> FALSE ]

\* ws.send raises ConnectionClosed on a connection that is no longer open
_send_json(s, obj) ==
  IF s.raised THEN s
  ELSE IF ws = "NONE" THEN s
  ELSE IF ws = "OPEN" THEN [s EXCEPT !.sent = Append(@, obj)]
  ELSE [s EXCEPT !.raised = TRUE]

\* variant: the request is sent whatever the in-flight flag says
_maybe_request_response_unguarded(s) ==
  IF s.raised THEN s
  ELSE LET s1 == _send_json(s, ResponseCreate)
       IN IF s1.raised THEN s1 ELSE [s1 EXCEPT !.response_in_progress = TRUE]

_maybe_request_response(s) ==
  IF s.raised \/ s.response_in_progress THEN s
  ELSE LET s1 == _send_json(s, ResponseCreate)
       IN IF s1.raised THEN s1 ELSE [s1 EXCEPT !.response_in_progress = TRUE]

_switch_voice(s, voice_name) ==
  IF s.raised \/ voice_name = s.voice_in_use THEN s
  ELSE LET s1 == [s EXCEPT !.voice_in_use = voice_name]
       IN _send_json(s1, session_config(s1.voice_in_use))

\* variant: every synthesis failure switches to the fallback voice again
_handle_synthesis_failure_every_time(s) ==
  IF s.raised \/ fallback_voice = None THEN s
  ELSE LET s1 == [s EXCEPT !.voice_fallback_used = TRUE, !.voice_in_use = fallback_voice]
           s2 == _send_json(s1, session_config(s1.voice_in_use))
       IN _maybe_request_response(s2)

_handle_synthesis_failure(s) ==
  IF s.raised THEN s
  ELSE IF /\ ~s.voice_fallback_used
          /\ fallback_voice # None
          /\ fallback_voice # s.voice_in_use
    THEN LET s1 == [s EXCEPT !.voice_fallback_used = TRUE]
             s2 == _switch_voice(s1, fallback_voice)
         IN _maybe_request_response(s2)
  ELSE s

\* try: body / except Exception: handler, on the record a handler transforms
Caught(s) == [s EXCEPT !.raised = FALSE]

\* variant: the payload stays pending after it was sent
_inject_background_context_keeps(s, payload) == _send_json(s, BackgroundMessage(payload))

_inject_background_context(s, payload) ==
  LET s1 == _send_json(s, BackgroundMessage(payload))
  IN IF s1.raised THEN s1 ELSE [s1 EXCEPT !.pending_background_payload = NoPayload]

_request_email_readback(s, email) ==
  IF ~_is_ws_connected THEN s
  ELSE IF email = <<>> THEN s
  ELSE LET s1 == [s EXCEPT !.pending_email_readback =
                     [email |-> email, fallback |-> email_to_spoken_tokens(email)]]
           s2 == _send_json(s1, ReadbackCreate(email_to_ssml(email)))
       IN IF s2.raised THEN s2 ELSE [s2 EXCEPT !.response_in_progress = TRUE]

_send_function_call_output_item(s, call_id, output) ==
  _send_json(s, FunctionCallOutputItem(call_id, output))

(***************************************************************************)
(* _receiver_loop: one operator per case of the match statement.           *)
(***************************************************************************)
\* variant: the greeting is not marked as requested
OnSessionCreated_greets_again(s, ev) ==
  LET s1 == [s EXCEPT !.session_id = ev.id,
                      !.voice_fallback_used = FALSE,
                      !.voice_in_use = PrimaryVoice]
      s2 == IF ev.id # None
              THEN [s1 EXCEPT !.ACTIVE_HANDLERS = _register_handler(@, ev.id, Self)]
              ELSE s1
      s3 == IF ~s2.sent_auto_greeting THEN _maybe_request_response(s2) ELSE s2
  IN IF s3.raised THEN s3
     ELSE IF s3.pending_background_payload # NoPayload /\ _is_ws_connected
       THEN _inject_background_context(s3, s3.pending_background_payload)
     ELSE s3

\* variant: the pending document is injected before the greeting is requested
OnSessionCreated_context_first(s, ev) ==
  LET s1 == [s EXCEPT !.session_id = ev.id,
                      !.voice_fallback_used = FALSE,
                      !.voice_in_use = PrimaryVoice]
      s2 == IF ev.id # None
              THEN [s1 EXCEPT !.ACTIVE_HANDLERS = _register_handler(@, ev.id, Self)]
              ELSE s1
      s3 == IF s2.pending_background_payload # NoPayload /\ _is_ws_connected
              THEN _inject_background_context(s2, s2.pending_background_payload)
              ELSE s2
  IN IF s3.raised THEN s3
     ELSE IF ~s3.sent_auto_greeting
       THEN LET g == _maybe_request_response(s3)
            IN IF g.raised THEN g ELSE [g EXCEPT !.sent_auto_greeting = TRUE]
     ELSE s3

OnSessionCreated(s, ev) ==
  LET s1 == [s EXCEPT !.session_id = ev.id,
                      !.voice_fallback_used = FALSE,
                      !.voice_in_use = PrimaryVoice]
      s2 == IF ev.id # None
              THEN [s1 EXCEPT !.ACTIVE_HANDLERS = _register_handler(@, ev.id, Self)]
              ELSE s1
      s3 == IF ~s2.sent_auto_greeting
              THEN LET g == _maybe_request_response(s2)
                   IN IF g.raised THEN g ELSE [g EXCEPT !.sent_auto_greeting = TRUE]
              ELSE s2
  IN IF s3.raised THEN s3
     ELSE IF s3.pending_background_payload # NoPayload /\ _is_ws_connected
       THEN _inject_background_context(s3, s3.pending_background_payload)
     ELSE s3

\* variant: the flag is latched and nothing is sent
OnSpeechStopped_latches(s, ev) ==
  IF s.raised THEN s ELSE [s EXCEPT !.response_in_progress = TRUE]

OnSpeechStopped(s, ev) == _maybe_request_response(s)

\* variant: the readback is requested for every detection
OnUserTranscript_no_dedup(s, ev) ==
  LET s1 == [s EXCEPT !.transcripts = Append(@, "user")]
      email == EmailSearch(ev.transcript)
  IN IF email = <<>> THEN s1
     ELSE LET s2 == [s1 EXCEPT !.last_email_readback = email]
              s3 == _request_email_readback(s2, email)
          IN IF s3.raised THEN Caught(s3) ELSE s3

OnUserTranscript(s, ev) ==
  LET s1 == [s EXCEPT !.transcripts = Append(@, "user")]
      email == EmailSearch(ev.transcript)
  IN IF email = <<>> THEN s1
     ELSE IF email # s1.last_email_readback
       THEN LET s2 == [s1 EXCEPT !.last_email_readback = email]
                s3 == _request_email_readback(s2, email)
            IN IF s3.raised THEN Caught(s3) ELSE s3
     ELSE s1

OnResponseCreated(s, ev) == [s EXCEPT !.response_in_progress = TRUE]

\* variant: response.done leaves the in-flight flag as it was
OnResponseDone_keeps_flag(s, ev) ==
  LET s1 == [s EXCEPT !.pending_email_readback = NoPendingReadback]
  IN IF ev.code = "speech_synthesis_error" THEN _handle_synthesis_failure(s1) ELSE s1

OnResponseDone(s, ev) ==
  LET s1 == [s EXCEPT !.response_in_progress = FALSE,
                      !.pending_email_readback = NoPendingReadback]
  IN IF ev.code = "speech_synthesis_error" THEN _handle_synthesis_failure(s1) ELSE s1

\* variant: the pending record outlives the fallback
SendReadbackFallback_keeps_pending(s) ==
  IF s.pending_email_readback = NoPendingReadback THEN s
  ELSE LET fallback == s.pending_email_readback.fallback
       IN IF fallback = <<>> THEN s
          ELSE LET s2 == _send_json(s, FallbackCreate(fallback))
               IN IF s2.raised THEN Caught(s2)
                  ELSE [s2 EXCEPT !.response_in_progress = TRUE]

\* the fallback readback both response.failed and error send
SendReadbackFallback(s) ==
  IF s.pending_email_readback = NoPendingReadback THEN s
  ELSE LET fallback == s.pending_email_readback.fallback
           s1 == [s EXCEPT !.pending_email_readback = NoPendingReadback]
       IN IF fallback = <<>> THEN s1
          ELSE LET s2 == _send_json(s1, FallbackCreate(fallback))
               IN IF s2.raised THEN Caught(s2)
                  ELSE [s2 EXCEPT !.response_in_progress = TRUE]

OnResponseFailed(s, ev) ==
  LET s1 == [s EXCEPT !.response_in_progress = FALSE]
      s2 == SendReadbackFallback(s1)
  IN IF ev.code = "speech_synthesis_error" THEN _handle_synthesis_failure(s2) ELSE s2

OnResponseInterrupted(s, ev) ==
  [s EXCEPT !.response_in_progress = FALSE,
            !.pending_email_readback = NoPendingReadback]

\* variant: the pending record survives the cancellation
OnResponseCanceled_keeps_pending(s, ev) == [s EXCEPT !.response_in_progress = FALSE]

OnResponseCanceled(s, ev) ==
  [s EXCEPT !.response_in_progress = FALSE,
            !.pending_email_readback = NoPendingReadback]

\* variant: the assistant entry is put in front of the buffer
OnTextDone_prepends(s, ev) == [s EXCEPT !.transcripts = <<"assistant">> \o @]

OnTextDone(s, ev) == [s EXCEPT !.transcripts = Append(@, "assistant")]

OnOutputItemDone(s, ev) ==
  IF ev.item_type # "function_call" THEN s
  ELSE LET body ==
             IF ~ev.json_ok THEN [s EXCEPT !.raised = TRUE]
             ELSE LET result == handle_function_call(ev.name, ev.args)
                      s1 == _send_function_call_output_item(s, ev.call_id, result)
                  IN _maybe_request_response(s1)
       IN IF body.raised
            THEN LET h1 == _send_function_call_output_item(
                             Caught(body), ev.call_id, "Error processing request")
                 IN _maybe_request_response(h1)
            ELSE body

OnFunctionCallArgumentsDone(s, ev) ==
  IF ev.call_id = None THEN [s EXCEPT !.returned = TRUE] ELSE s

\* variant: every error code clears the flag and triggers the fallbacks
OnError_every_code(s, ev) ==
  LET s1 == [s EXCEPT !.response_in_progress = FALSE]
      s2 == SendReadbackFallback(s1)
  IN IF ev.code = "speech_synthesis_error" THEN _handle_synthesis_failure(s2) ELSE s2

OnError(s, ev) ==
  IF ev.code = "conversation_already_has_active_response" THEN s
  ELSE LET s1 == [s EXCEPT !.response_in_progress = FALSE]
           s2 == SendReadbackFallback(s1)
       IN IF ev.code = "speech_synthesis_error" THEN _handle_synthesis_failure(s2) ELSE s2

\* a frame that is not JSON is dropped; one that parses to a non-object makes
\* event.get raise AttributeError, which only the outer handler catches
OnMalformed(s, ev) == IF ev.kind = "not_json" THEN s ELSE [s EXCEPT !.raised = TRUE]

OnIgnored(s, ev) == s

(***************************************************************************)
(* Inbound frames.                                                         *)
(***************************************************************************)
ActiveResponseCode == "conversation_already_has_active_response"
SynthesisCode == "speech_synthesis_error"
TerminalTypes ==
  {"response.done", "response.failed", "response.interrupted",
   "response.canceled", "response.cancelled"}

EvSessionCreated(ids) == {[type |-> "session.created", id |-> i] : i \in ids}
EvSpeechStopped == {[type |-> "input_audio_buffer.speech_stopped"]}
EvUserTranscript(ts) ==
  {[type |-> "conversation.item.input_audio_transcription.completed", transcript |-> t] :
     t \in ts}
EvResponseCreated == {[type |-> "response.created"]}
EvResponseDone(codes) == {[type |-> "response.done", code |-> c] : c \in codes}
EvResponseFailed(codes) == {[type |-> "response.failed", code |-> c] : c \in codes}
EvResponseInterrupted == {[type |-> "response.interrupted"]}
EvResponseCanceled(types) == {[type |-> t] : t \in types}
EvTextDone == {[type |-> "response.text.done"]}
EvFunctionCall(names, oks, argss) ==
  {[type |-> "response.output_item.done", item_type |-> "function_call",
    call_id |-> "call_1", name |-> n, json_ok |-> j, args |-> a] :
     n \in names, j \in oks, a \in argss}
EvMessageItem ==
  {[type |-> "response.output_item.done", item_type |-> "message",
    call_id |-> None, name |-> None, json_ok |-> TRUE, args |-> [patient_id |-> Absent]]}
EvFunctionCallArgumentsDone(ids) ==
  {[type |-> "response.function_call_arguments.done", call_id |-> c] : c \in ids}
EvError(codes) == {[type |-> "error", code |-> c] : c \in codes}
EvIgnored(types) == {[type |-> t] : t \in types}
EvMalformed(kinds) == {[type |-> "malformed", kind |-> k] : k \in kinds}

IsTerminal(ev) == ev.type \in TerminalTypes
ClearsFlag(ev) == IsTerminal(ev) \/ (ev.type = "error" /\ ev.code # ActiveResponseCode)

IsReadbackCreate(m) ==
  /\ IsResponseCreate(m)
  /\ "instructions" \in DOMAIN m
  /\ m.instructions[1] = "Output exactly this SSML:"
IsFallbackCreate(m) ==
  /\ IsResponseCreate(m)
  /\ "instructions" \in DOMAIN m
  /\ m.instructions[1] = "Say exactly:"
NumReadbackCreate(q) == Cardinality({i \in 1..Len(q) : IsReadbackCreate(q[i])})
NumFallbackCreate(q) == Cardinality({i \in 1..Len(q) : IsFallbackCreate(q[i])})

Dec(n) == IF n > 0 THEN n - 1 ELSE 0

IsUserTranscript(ev) ==
  ev.type = "conversation.item.input_audio_transcription.completed"
\* the frame is a user transcript an email token is found in
Detects(ev) == IsUserTranscript(ev) /\ EmailSearch(ev.transcript) # <<>>

(***************************************************************************)
(* History counters.  A specification keeps the counters named in its set  *)
(* W and leaves the others at their initial value.                         *)
(***************************************************************************)
Observe(ev, s, W) ==
  /\ sent' = s.sent
  /\ last' = ev
  /\ IF "outstanding" \in W
       THEN outstanding' =
              Bump(IF IsTerminal(ev) THEN Dec(outstanding) ELSE outstanding,
                   NumResponseCreate(s.sent))
       ELSE UNCHANGED outstanding
  /\ IF "mrr" \in W
       THEN /\ mrr_since_terminal' =
                 Bump(IF IsTerminal(ev) THEN 0 ELSE mrr_since_terminal,
                      NumPlainCreate(s.sent))
            /\ mrr_since_clear' =
                 Bump(IF ClearsFlag(ev) THEN 0 ELSE mrr_since_clear,
                      NumPlainCreate(s.sent))
       ELSE UNCHANGED <<mrr_since_terminal, mrr_since_clear>>
  /\ IF "switches" \in W
       THEN /\ voice_switches' = Bump(voice_switches, NumSessionUpdate(s.sent))
            /\ switches_since_session' =
                 Bump(IF ev.type = "session.created" THEN 0 ELSE switches_since_session,
                      NumSessionUpdate(s.sent))
       ELSE UNCHANGED <<voice_switches, switches_since_session>>
  /\ IF "readback" \in W
       THEN IF s.last_email_readback # last_email_readback
              THEN /\ rb_count' = NumReadbackCreate(s.sent)
                   /\ rb_open' = _is_ws_connected
                   /\ rb_seen' = 1
              ELSE /\ rb_count' = Bump(rb_count, NumReadbackCreate(s.sent))
                   /\ rb_open' = rb_open
                   /\ rb_seen' = IF Detects(ev) THEN Bump(rb_seen, 1) ELSE rb_seen
       ELSE UNCHANGED <<rb_count, rb_open, rb_seen>>

\* One iteration of "async for message in self.ws": the frame ev is handled,
\* leaving the relay as s; an exception that escapes the handler, or a return,
\* ends the loop through its finally clause.
Dispatch(ev, s, W) ==
  /\ rx = "running"
  /\ session_id' = s.session_id
  /\ voice_in_use' = s.voice_in_use
  /\ voice_fallback_used' = s.voice_fallback_used
  /\ response_in_progress' = s.response_in_progress
  /\ sent_auto_greeting' = s.sent_auto_greeting
  /\ pending_background_payload' = s.pending_background_payload
  /\ last_email_readback' = s.last_email_readback
  /\ pending_email_readback' = s.pending_email_readback
  /\ transcripts' = s.transcripts
  /\ IF s.raised \/ s.returned
       THEN /\ ACTIVE_HANDLERS' = _unregister_handler(s.ACTIVE_HANDLERS, s.session_id)
            /\ ws' = "NONE"
            /\ rx' = "done"
       ELSE /\ ACTIVE_HANDLERS' = s.ACTIVE_HANDLERS
            /\ UNCHANGED <<ws, rx>>
  /\ Observe(ev, s, W)
  /\ UNCHANGED <<fallback_voice, uuid_count, tx_vars, ctx_vars>>

RecvSessionCreated(E, W) == \E ev \in E : Dispatch(ev, OnSessionCreated(Cur, ev), W)
RecvSpeechStopped(W) == \E ev \in EvSpeechStopped : Dispatch(ev, OnSpeechStopped(Cur, ev), W)
RecvUserTranscript(E, W) ==
  /\ Len(transcripts) < MaxTranscripts
  /\ \E ev \in E : Dispatch(ev, OnUserTranscript(Cur, ev), W)
RecvResponseCreated(W) ==
  \E ev \in EvResponseCreated : Dispatch(ev, OnResponseCreated(Cur, ev), W)
RecvResponseDone(E, W) == \E ev \in E : Dispatch(ev, OnResponseDone(Cur, ev), W)
RecvResponseFailed(E, W) == \E ev \in E : Dispatch(ev, OnResponseFailed(Cur, ev), W)
RecvResponseInterrupted(W) ==
  \E ev \in EvResponseInterrupted : Dispatch(ev, OnResponseInterrupted(Cur, ev), W)
RecvResponseCanceled(E, W) == \E ev \in E : Dispatch(ev, OnResponseCanceled(Cur, ev), W)
RecvTextDone(W) ==
  /\ Len(transcripts) < MaxTranscripts
  /\ \E ev \in EvTextDone : Dispatch(ev, OnTextDone(Cur, ev), W)
RecvOutputItemDone(E, W) == \E ev \in E : Dispatch(ev, OnOutputItemDone(Cur, ev), W)
RecvFunctionCallArgumentsDone(E, W) ==
  \E ev \in E : Dispatch(ev, OnFunctionCallArgumentsDone(Cur, ev), W)
RecvError(E, W) == \E ev \in E : Dispatch(ev, OnError(Cur, ev), W)
RecvIgnored(E, W) == \E ev \in E : Dispatch(ev, OnIgnored(Cur, ev), W)
RecvMalformed(E, W) == \E ev \in E : Dispatch(ev, OnMalformed(Cur, ev), W)

\* steps that leave the history counters alone and write nothing upstream
Quiet(label) ==
  /\ sent' = <<>>
  /\ last' = label
  /\ UNCHANGED <<outstanding, mrr_since_terminal, mrr_since_clear, voice_switches,
                 switches_since_session, rb_count, rb_open, rb_seen>>

\* the peer closes the connection; frames already received are still delivered
WsClose ==
  /\ ws = "OPEN"
  /\ ws' = "CLOSED"
  /\ Quiet([type |-> "ws_closed"])
  /\ UNCHANGED <<rx, fallback_voice, session_id, voice_in_use, voice_fallback_used,
                 response_in_progress, sent_auto_greeting, pending_background_payload,
                 last_email_readback, pending_email_readback, transcripts,
                 ACTIVE_HANDLERS, uuid_count, tx_vars, ctx_vars>>

\* the iteration over self.ws ends (or raises ConnectionClosed): finally clause
RecvEnd ==
  /\ rx = "running"
  /\ ws = "CLOSED"
  /\ ACTIVE_HANDLERS' = _unregister_handler(ACTIVE_HANDLERS, session_id)
  /\ ws' = "NONE"
  /\ rx' = "done"
  /\ Quiet([type |-> "receiver_end"])
  /\ UNCHANGED <<fallback_voice, session_id, voice_in_use, voice_fallback_used,
                 response_in_progress, sent_auto_greeting, pending_background_payload,
                 last_email_readback, pending_email_readback, transcripts,
                 uuid_count, tx_vars, ctx_vars>>

(***************************************************************************)
(* Background context refresh.  A task is [pid, pc, cancel]: pc is where   *)
(* the coroutine is suspended ("created": not yet run; "loading": in       *)
(* run_in_executor; "sending": in the send of the context message), and    *)
(* cancel says Task.cancel() was called and CancelledError is yet to be    *)
(* thrown into it.                                                         *)
(***************************************************************************)
Strip(x) ==
  CASE x = " PATIENT002 " -> "PATIENT002"
    [] x = "   " -> ""
    [] OTHER -> x

NewTask(pid) == [pid |-> pid, pc |-> "created", cancel |-> FALSE]
TaskDone(t) == t.pc \in {"done", "cancelled"}
BackgroundPayload(pid, profile, overview) ==
  [patientId |-> pid, profile |-> profile, overview |-> overview]

CurCtx ==
  [ patient_id |-> patient_id,
    patient_profile |-> patient_profile,
    context_task |-> context_task,
    tasks |-> tasks ]

_schedule_patient_context_refresh(c, pid) ==
  IF pid = c.patient_id /\ c.patient_profile # None THEN c
  ELSE LET cancelled ==
             IF c.context_task # 0 /\ ~TaskDone(c.tasks[c.context_task])
               THEN [c.tasks EXCEPT ![c.context_task].cancel = TRUE]
               ELSE c.tasks
       IN [c EXCEPT !.patient_id = pid,
                    !.tasks = Append(cancelled, NewTask(pid)),
                    !.context_task = Len(cancelled) + 1]

(***************************************************************************)
(* inject_tool_result.                                                     *)
(***************************************************************************)
ALLOWED_MODALITIES == {"text", "audio", "animation", "avatar"}
InvalidModalities(m) == {i \in 1..Len(m) : m[i] \notin ALLOWED_MODALITIES}
\* variant: every call is given the same id
_generate_call_id_constant(n) == "uuid" \o ToString(1)

_generate_call_id(n) == "uuid" \o ToString(n + 1)

HasPatientId(args) ==
  args.patient_id \notin {Absent, NonStr} /\ Strip(args.patient_id) # ""

NormalizedArgs(args) ==
  IF HasPatientId(args) THEN [args EXCEPT !.patient_id = Strip(args.patient_id)]
  ELSE args

InjectSchedule(c, args) ==
  IF HasPatientId(args)
    THEN _schedule_patient_context_refresh(c, Strip(args.patient_id))
    ELSE c

\* variant: silent is looked at before the modalities
InjectResponsePayload_silent_first(silent, modalities) ==
  IF silent THEN <<>>
  ELSE IF modalities # <<>> THEN <<ScopedCreate(modalities)>>
  ELSE <<ResponseCreate>>

\* the response request inject_tool_result sends after the output item:
\* <<>> for none
InjectResponsePayload(silent, modalities) ==
  IF modalities # <<>> THEN <<ScopedCreate(modalities)>>
  ELSE IF ~silent THEN <<ResponseCreate>>
  ELSE <<>>

InjectOutcome(modalities) ==
  IF modalities # <<>> /\ InvalidModalities(modalities) # {} THEN "ValueError" ELSE "ok"

\* what inject_tool_result writes upstream, in order
InjectSends(call_id, function_name, args, output, silent, modalities) ==
  LET nargs == NormalizedArgs(args)
      output_value == IF output = None THEN handle_function_call(function_name, nargs)
                      ELSE output
  IN <<FunctionCallItem(call_id, function_name, nargs),
       FunctionCallOutputItem(call_id, output_value)>>
     \o (IF InjectOutcome(modalities) = "ok"
           THEN InjectResponsePayload(silent, modalities) ELSE <<>>)

\* inject_tool_result, as long as fewer than limit call ids were handed out
InjectToolResultUpTo(limit, function_name, args, output, silent, modalities, W) ==
  LET call == [type |-> "inject_tool_result", function_name |-> function_name,
               args |-> args, output |-> output, silent |-> silent,
               modalities |-> modalities]
  IN IF ~_is_ws_connected
       THEN /\ Quiet(call @@ [outcome |-> "RuntimeError", call_id |-> None])
            /\ UNCHANGED <<relay_vars, ctx_vars>>
       ELSE LET call_id == _generate_call_id(uuid_count)
                c == InjectSchedule(CurCtx, args)
                out == InjectSends(call_id, function_name, args, output, silent, modalities)
                outcome == InjectOutcome(modalities)
            IN /\ uuid_count < limit
               /\ Len(c.tasks) <= MaxTasks
               /\ uuid_count' = uuid_count + 1
               /\ patient_id' = c.patient_id
               /\ tasks' = c.tasks
               /\ context_task' = c.context_task
               /\ sent' = out
               /\ response_in_progress' =
                    IF outcome = "ok" /\ NumResponseCreate(out) > 0 THEN TRUE
                    ELSE response_in_progress
               /\ IF "outstanding" \in W
                    THEN outstanding' = Bump(outstanding, NumResponseCreate(out))
                    ELSE UNCHANGED outstanding
               /\ last' = call @@ [outcome |-> outcome,
                                   call_id |-> IF outcome = "ok" THEN call_id ELSE None]
               /\ UNCHANGED <<ws, rx, fallback_voice, session_id, voice_in_use,
                              voice_fallback_used, sent_auto_greeting,
                              pending_background_payload, last_email_readback,
                              pending_email_readback, transcripts, ACTIVE_HANDLERS,
                              tx_vars, patient_profile, patient_context, mrr_since_terminal,
                              mrr_since_clear, voice_switches, switches_since_session,
                              rb_count, rb_open, rb_seen>>

InjectToolResult(function_name, args, output, silent, modalities, W) ==
  InjectToolResultUpTo(MaxUuid, function_name, args, output, silent, modalities, W)

Inject(names, argss, outputs, silents, modss, W) ==
  \E n \in names, a \in argss, o \in outputs, sl \in silents, m \in modss :
    InjectToolResult(n, a, o, sl, m, W)

(***************************************************************************)
(* connect: the handshake, _initialize_patient_context, the initial        *)
(* session.update, and the start of the receive loop and the sender loop.  *)
(***************************************************************************)
Missing == {None, ""}

\* variant: an endpoint and a model are both required
connect_precheck_requires_model(endpoint, model) ==
  IF endpoint \in Missing \/ model \in Missing THEN "ValueError" ELSE "ok"

\* connect, up to the request of a credential: the test of the endpoint,
\* and quote(self.model) in the URL, which raises TypeError for None and
\* accepts the empty string
connect_precheck(endpoint, model) ==
  IF endpoint \in Missing THEN "ValueError"
  ELSE IF model = None THEN "TypeError"
  ELSE "ok"

\* connect raises before it requests a credential; the task web_ws created
\* for it ends with the exception
ConnectFails ==
  /\ connect_task = "pending"
  /\ connect_precheck(config.endpoint, config.model) # "ok"
  /\ connect_task' = "failed"
  /\ Quiet([type |-> "connect_failed",
            error |-> connect_precheck(config.endpoint, config.model),
            token_requested |-> FALSE])
  /\ UNCHANGED <<ws, rx, fallback_voice, session_id, voice_in_use, voice_fallback_used,
                 response_in_progress, sent_auto_greeting, pending_background_payload,
                 last_email_readback, pending_email_readback, transcripts,
                 ACTIVE_HANDLERS, uuid_count, tx, send_queue, incoming_websocket,
                 enqueued, drained, cosmos, config, ctx_vars>>

\* connect passes its checks and requests a credential, and the credential
\* or the handshake is refused: get_token or ws_connect raises
ConnectRefused ==
  /\ connect_task = "pending"
  /\ connect_precheck(config.endpoint, config.model) = "ok"
  /\ connect_task' = "failed"
  /\ \E error \in {"ClientAuthenticationError", "InvalidHandshake"} :
       Quiet([type |-> "connect_failed", error |-> error, token_requested |-> TRUE])
  /\ UNCHANGED <<ws, rx, fallback_voice, session_id, voice_in_use, voice_fallback_used,
                 response_in_progress, sent_auto_greeting, pending_background_payload,
                 last_email_readback, pending_email_readback, transcripts,
                 ACTIVE_HANDLERS, uuid_count, tx, send_queue, incoming_websocket,
                 enqueued, drained, cosmos, config, ctx_vars>>

\* variant: a response is requested before the session is configured
Connect_requests_first ==
  /\ connect_task = "pending"
  /\ connect_precheck(config.endpoint, config.model) = "ok"
  /\ connect_task' = "done"
  /\ ws = "NONE"
  /\ rx = "idle"
  /\ ws' = "OPEN"
  /\ patient_id' = DefaultPatientId
  /\ patient_context' = build_patient_context(DefaultPatientId)
  /\ patient_profile' = get_patient_profile(DefaultPatientId)
  /\ pending_background_payload' =
       BackgroundPayload(DefaultPatientId, get_patient_profile(DefaultPatientId),
                         build_patient_context(DefaultPatientId))
  /\ sent' = <<ResponseCreate, session_config(voice_in_use)>>
  /\ last' = [type |-> "connect"]
  /\ rx' = "running"
  /\ tx' = "running"
  /\ UNCHANGED <<fallback_voice, session_id, voice_in_use, voice_fallback_used,
                 response_in_progress, sent_auto_greeting, last_email_readback,
                 pending_email_readback, transcripts, ACTIVE_HANDLERS, uuid_count,
                 send_queue, incoming_websocket, enqueued, drained, cosmos, config,
                 context_task, tasks,
                 outstanding, mrr_since_terminal, mrr_since_clear,
                 voice_switches, switches_since_session, rb_count, rb_open, rb_seen>>

Connect ==
  /\ connect_task = "pending"
  /\ connect_precheck(config.endpoint, config.model) = "ok"
  /\ connect_task' = "done"
  /\ ws = "NONE"
  /\ rx = "idle"
  /\ ws' = "OPEN"
  /\ patient_id' = DefaultPatientId
  /\ patient_context' = build_patient_context(DefaultPatientId)
  /\ patient_profile' = get_patient_profile(DefaultPatientId)
  /\ pending_background_payload' =
       BackgroundPayload(DefaultPatientId, get_patient_profile(DefaultPatientId),
                         build_patient_context(DefaultPatientId))
  /\ sent' = <<session_config(voice_in_use)>>
  /\ last' = [type |-> "connect"]
  /\ rx' = "running"
  /\ tx' = "running"
  /\ UNCHANGED <<fallback_voice, session_id, voice_in_use, voice_fallback_used,
                 response_in_progress, sent_auto_greeting, last_email_readback,
                 pending_email_readback, transcripts, ACTIVE_HANDLERS, uuid_count,
                 send_queue, incoming_websocket, enqueued, drained, cosmos, config,
                 context_task, tasks,
                 outstanding, mrr_since_terminal, mrr_since_clear,
                 voice_switches, switches_since_session, rb_count, rb_open, rb_seen>>

(***************************************************************************)
(* Spec: the response cycle.  The receive loop with every frame that reads *)
(* or writes the in-flight flag, and the injection API.                    *)
(***************************************************************************)
PlainTranscript == [is_str |-> TRUE, emails |-> <<>>]
Email1Transcript == [is_str |-> TRUE, emails |-> <<Email1>>]

\* the histories Spec keeps, the frames it receives and the calls it makes
FlowIn ==
  [ watch |-> {"outstanding", "mrr"},
    session_created |-> EvSessionCreated({"S1"}),
    user_transcript |-> EvUserTranscript({Email1Transcript}),
    response_done |-> EvResponseDone({None, SynthesisCode}),
    response_failed |-> EvResponseFailed({None, SynthesisCode}),
    response_canceled |-> EvResponseCanceled({"response.canceled"}),
    output_item_done |->
      EvFunctionCall({"get_patient_history"}, BOOLEAN,
                     {[patient_id |-> DefaultPatientId]}) \cup EvMessageItem,
    error |-> EvError({ActiveResponseCode, SynthesisCode, "other_error"}),
    names |-> {"get_patient_history"},
    args |-> {[patient_id |-> Absent]},
    outputs |-> {"supplied output"},
    silents |-> BOOLEAN,
    modalities |-> {<<>>, <<"audio">>} ]

Next ==
  \/ Connect
  \/ RecvSessionCreated(FlowIn.session_created, FlowIn.watch)
  \/ RecvSpeechStopped(FlowIn.watch)
  \/ RecvUserTranscript(FlowIn.user_transcript, FlowIn.watch)
  \/ RecvResponseCreated(FlowIn.watch)
  \/ RecvResponseDone(FlowIn.response_done, FlowIn.watch)
  \/ RecvResponseFailed(FlowIn.response_failed, FlowIn.watch)
  \/ RecvResponseInterrupted(FlowIn.watch)
  \/ RecvResponseCanceled(FlowIn.response_canceled, FlowIn.watch)
  \/ RecvOutputItemDone(FlowIn.output_item_done, FlowIn.watch)
  \/ RecvError(FlowIn.error, FlowIn.watch)
  \/ WsClose
  \/ RecvEnd
  \/ Inject(FlowIn.names, FlowIn.args, FlowIn.outputs, FlowIn.silents,
            FlowIn.modalities, FlowIn.watch)

Spec == Init /\ [][Next]_vars

(***************************************************************************)
(* Properties of the response cycle, checked under Spec.                   *)
(***************************************************************************)

\* C1: at most one response.create is outstanding: the number of
\* response.create commands sent by any sender and not yet answered by a
\* terminal response event never exceeds one.
C1_AtMostOneOutstanding == outstanding <= 1

\* the state C1 fails in: a response is in flight and inject_tool_result has
\* just sent another response.create
C1_InjectWhileInFlight ==
  /\ last.type = "inject_tool_result"
  /\ NumResponseCreate(sent) = 1
  /\ outstanding = 2

IsSpeechStopped(ev) == ev.type = "input_audio_buffer.speech_stopped"

\* C2 as stated: _maybe_request_response never sends two response.create
\* between the flag becoming true and the next terminal response event.
C2_AtMostOnePerTerminal == mrr_since_terminal <= 1

\* C2 amended: a call of _maybe_request_response (the whole of the
\* speech_stopped handler) changes nothing and sends nothing when the flag
\* is true, and otherwise sends one response.create and sets the flag; and
\* it never sends two response.create between the flag becoming true and the
\* next event that clears it (a terminal response event, or an error event
\* whose code is not conversation_already_has_active_response).
C2_MaybeRequestResponse ==
  /\ [](mrr_since_clear <= 1)
  /\ [][(IsSpeechStopped(last') /\ rx' = "running") =>
          IF response_in_progress
            THEN sent' = <<>> /\ UNCHANGED <<relay_vars, ctx_vars>>
            ELSE sent' = <<ResponseCreate>> /\ response_in_progress']_vars

\* a call of _maybe_request_response skipped because a response requested by
\* an earlier call is still in flight
C2_SkippedWhileInFlight ==
  /\ IsSpeechStopped(last)
  /\ rx = "running"
  /\ sent = <<>>
  /\ response_in_progress
  /\ mrr_since_clear = 1

\* C3 as stated: after the dispatch of a terminal response event the
\* in-flight flag is false.
C3_FalseAfterTerminal == IsTerminal(last) => ~response_in_progress

\* C3 amended: after the dispatch of response.interrupted or
\* response.canceled the flag is false; after the dispatch of response.done
\* or response.failed the flag is true exactly when that dispatch itself
\* sent a response.create (the readback fallback, or the retry after a voice
\* fallback), and it sent at most one.
C3_FlagAfterTerminal ==
  IsTerminal(last) =>
    /\ response_in_progress <=> (NumResponseCreate(sent) = 1)
    /\ NumResponseCreate(sent) <= 1
    /\ last.type \notin {"response.done", "response.failed"} => sent = <<>>

\* a response.done whose synthesis error made the relay switch voice and
\* request the response again
C3_RetryAfterDone ==
  /\ last.type = "response.done"
  /\ last.code = SynthesisCode
  /\ response_in_progress
  /\ sent = <<session_config(FallbackVoice), ResponseCreate>>

\* C4: the dispatch of a function-call output_item.done sends exactly one
\* function_call_output item with the call id of the event and then exactly
\* one response.create, whatever the in-flight flag was.
C4_OutputThenResponse ==
  (/\ last.type = "response.output_item.done"
   /\ last.item_type = "function_call"
   /\ rx = "running") =>
    /\ Len(sent) = 2
    /\ IsItem(sent[1], "function_call_output")
    /\ sent[1].call_id = last.call_id
    /\ IsResponseCreate(sent[2])

\* the state C4 fails in: the function call of a response still in flight
\* gets its output item and no response.create
C4_OutputWithoutResponse ==
  /\ last.type = "response.output_item.done"
  /\ last.item_type = "function_call"
  /\ rx = "running"
  /\ response_in_progress
  /\ Len(sent) = 1
  /\ IsItem(sent[1], "function_call_output")

(***************************************************************************)
(* SpecVoice: the voice fallback.  The receive loop with the three frames  *)
(* that signal a synthesis failure and repeated session.created frames.    *)
(***************************************************************************)
VoiceIn ==
  [ watch |-> {"switches"},
    session_created |-> EvSessionCreated(SessionIds),
    response_done |-> EvResponseDone({None, SynthesisCode}),
    response_failed |-> EvResponseFailed({None, SynthesisCode}),
    error |-> EvError({SynthesisCode, "other_error"}) ]

NextVoice ==
  \/ Connect
  \/ RecvSessionCreated(VoiceIn.session_created, VoiceIn.watch)
  \/ RecvSpeechStopped(VoiceIn.watch)
  \/ RecvResponseCreated(VoiceIn.watch)
  \/ RecvResponseDone(VoiceIn.response_done, VoiceIn.watch)
  \/ RecvResponseFailed(VoiceIn.response_failed, VoiceIn.watch)
  \/ RecvError(VoiceIn.error, VoiceIn.watch)
  \/ WsClose
  \/ RecvEnd

SpecVoice == Init /\ [][NextVoice]_vars

IsSynthesisFailure(ev) ==
  /\ ev.type \in {"response.done", "response.failed", "error"}
  /\ ev.code = SynthesisCode

\* C5 as stated: at most one voice switch is sent over the life of the relay
\* session, further session.created frames included.
C5_AtMostOneSwitch == voice_switches <= 1

\* C5 amended: at most one voice switch (a session.update naming the
\* fallback voice) is sent between one session.created frame and the next,
\* and a synthesis-failure signal dispatched after the fallback was used
\* sends no switch.
C5_OneSwitchPerSessionCreated ==
  /\ [](switches_since_session <= 1)
  /\ [][(IsSynthesisFailure(last') /\ rx = "running") =>
          /\ voice_fallback_used => NumSessionUpdate(sent') = 0
          /\ \A i \in 1..Len(sent') :
               IsSessionUpdate(sent'[i]) => sent'[i] = session_config(FallbackVoice)]_vars

\* the second of two synthesis-failure signals: the switch was sent by the
\* first, none by this one
C5_SecondFailureNoSwitch ==
  /\ IsSynthesisFailure(last)
  /\ rx = "running"
  /\ voice_fallback_used
  /\ sent = <<>>
  /\ switches_since_session = 1
  /\ voice_switches = 1

(***************************************************************************)
(* SpecEmail: the email readback.  The receive loop with user transcripts, *)
(* error frames and the frames that end a response, on a connection the    *)
(* peer may close while frames are still buffered.                         *)
(***************************************************************************)
EmailIn ==
  [ watch |-> {"readback"},
    user_transcript |-> EvUserTranscript(Transcripts),
    response_done |-> EvResponseDone({None}),
    response_failed |-> EvResponseFailed({None}),
    error |-> EvError({ActiveResponseCode, SynthesisCode, "other_error"}) ]

NextEmail ==
  \/ Connect
  \/ RecvUserTranscript(EmailIn.user_transcript, EmailIn.watch)
  \/ RecvResponseDone(EmailIn.response_done, EmailIn.watch)
  \/ RecvResponseFailed(EmailIn.response_failed, EmailIn.watch)
  \/ RecvError(EmailIn.error, EmailIn.watch)
  \/ WsClose
  \/ RecvEnd

SpecEmail == Init /\ [][NextEmail]_vars

\* C6 as stated: the same token detected in two user transcripts in a row
\* has exactly one readback emitted, also when the connection was not open
\* at the first detection.
C6_OneReadbackWhateverConnection == rb_seen = 2 => rb_count = 1

\* C6 amended: a token newly detected while the connection is open has
\* exactly one readback emitted (so two different tokens in succession have
\* two), and none when the connection is not open; detecting the same token
\* again sends nothing and changes no relay state but the transcript buffer.
C6_ReadbackDedup ==
  /\ [](rb_seen >= 1 => rb_count = IF rb_open THEN 1 ELSE 0)
  /\ [][(/\ Detects(last')
          /\ rx = "running"
          /\ EmailSearch(last'.transcript) = last_email_readback) =>
          /\ sent' = <<>>
          /\ transcripts' = Append(transcripts, "user")
          /\ UNCHANGED <<ws, rx, fallback_voice, session_id, voice_in_use,
                         voice_fallback_used, response_in_progress,
                         sent_auto_greeting, pending_background_payload,
                         last_email_readback, pending_email_readback,
                         ACTIVE_HANDLERS, uuid_count, ctx_vars>>]_vars

\* the second detection of a token whose readback was sent at the first
C6_SecondDetection ==
  /\ Detects(last)
  /\ rx = "running"
  /\ rb_seen = 2
  /\ rb_open
  /\ rb_count = 1
  /\ sent = <<>>

\* C7 as stated: an error frame with any code, dispatched on an open
\* connection while a readback is pending, sends exactly one fallback
\* response.create and clears the pending record.
C7_FallbackOnAnyError ==
  [][(/\ last'.type = "error"
      /\ rx = "running"
      /\ ws = "OPEN"
      /\ pending_email_readback # NoPendingReadback) =>
      /\ NumFallbackCreate(sent') = 1
      /\ pending_email_readback' = NoPendingReadback]_vars

\* C7 amended: an error frame whose code is
\* conversation_already_has_active_response sends nothing and leaves the
\* pending record; one with any other code clears the pending record and,
\* if a readback was pending and the connection is open, first sends
\* exactly one fallback response.create holding the spelled-out form of
\* the pending email, and otherwise sends no fallback (so a further error
\* frame sends no second one).
C7_FallbackOnError ==
  [][(last'.type = "error" /\ rx = "running") =>
       IF last'.code = ActiveResponseCode
         THEN sent' = <<>> /\ UNCHANGED pending_email_readback
         ELSE /\ pending_email_readback' = NoPendingReadback
              /\ IF pending_email_readback # NoPendingReadback /\ ws = "OPEN"
                   THEN /\ NumFallbackCreate(sent') = 1
                        /\ sent'[1] = FallbackCreate(
                              email_to_spoken_tokens(pending_email_readback.email))
                   ELSE NumFallbackCreate(sent') = 0]_vars

\* an error frame answered with the spelled-out fallback for a@b.io
C7_FallbackSent ==
  /\ last.type = "error"
  /\ last.code = "other_error"
  /\ pending_email_readback = NoPendingReadback
  /\ sent = <<FallbackCreate(<<"a", ", ", "at", ", ", "b", ", ", "dot", ", ", "i", ", ", "o">>)>>

(***************************************************************************)
(* The steps of a _refresh_patient_context task.  The event loop runs a    *)
(* task from one suspension point to the next; a task cancelled before its *)
(* first step never enters the coroutine, one cancelled while suspended    *)
(* has CancelledError raised at its await and leaves through the finally   *)
(* clause.                                                                 *)
(***************************************************************************)
TaskIds == 1..Len(tasks)
SetPc(i, pc) == [tasks EXCEPT ![i].pc = pc]
TaskStep(kind, i) == [type |-> kind, task |-> i]

\* first step: up to the await of run_in_executor in _apply_patient_context
TaskStart(i) ==
  /\ tasks[i].pc = "created"
  /\ ~tasks[i].cancel
  /\ tasks' = SetPc(i, "loading")
  /\ Quiet(TaskStep("task_start", i))
  /\ UNCHANGED <<relay_vars, patient_id, patient_profile, patient_context, context_task>>

\* the loader returned: the rest of _apply_patient_context up to the send
\* of the context message, which may complete at once or suspend; then the
\* finally clause of _refresh_patient_context
TaskLoaded(i) ==
  LET pid == tasks[i].pid
      context_text == build_patient_context(pid)
      profile == get_patient_profile(pid)
      background_payload == BackgroundPayload(pid, profile, context_text)
  IN /\ tasks[i].pc = "loading"
     /\ ~tasks[i].cancel
     /\ patient_context' = context_text
     /\ patient_profile' = profile
     /\ last' = TaskStep("task_loaded", i)
     /\ IF ~_is_ws_connected
          THEN /\ UNCHANGED pending_background_payload
               /\ sent' = <<>>
               /\ tasks' = SetPc(i, "done")
               /\ context_task' = 0
          ELSE IF profile = None /\ context_text = None
            THEN /\ pending_background_payload' = NoPayload
                 /\ sent' = <<>>
                 /\ tasks' = SetPc(i, "done")
                 /\ context_task' = 0
          ELSE IF session_id = None
            THEN /\ pending_background_payload' = background_payload
                 /\ sent' = <<>>
                 /\ tasks' = SetPc(i, "done")
                 /\ context_task' = 0
          ELSE /\ sent' = <<BackgroundMessage(background_payload)>>
               /\ \/ /\ pending_background_payload' = NoPayload
                     /\ tasks' = SetPc(i, "done")
                     /\ context_task' = 0
                  \/ /\ pending_background_payload' = background_payload
                     /\ tasks' = SetPc(i, "sending")
                     /\ UNCHANGED context_task
     /\ UNCHANGED <<ws, rx, fallback_voice, session_id, voice_in_use, voice_fallback_used,
                    response_in_progress, sent_auto_greeting, last_email_readback,
                    pending_email_readback, transcripts, ACTIVE_HANDLERS, uuid_count,
                    tx_vars, patient_id, outstanding, mrr_since_terminal, mrr_since_clear,
                    voice_switches, switches_since_session, rb_count, rb_open, rb_seen>>

\* the suspended send returned, or raised because the connection was lost
TaskSent(i) ==
  /\ tasks[i].pc = "sending"
  /\ ~tasks[i].cancel
  /\ pending_background_payload' =
       IF ws = "OPEN" THEN NoPayload ELSE pending_background_payload
  /\ tasks' = SetPc(i, "done")
  /\ context_task' = 0
  /\ Quiet(TaskStep("task_sent", i))
  /\ UNCHANGED <<ws, rx, fallback_voice, session_id, voice_in_use, voice_fallback_used,
                 response_in_progress, sent_auto_greeting, last_email_readback,
                 pending_email_readback, transcripts, ACTIVE_HANDLERS, uuid_count,
                 tx_vars, patient_id, patient_profile, patient_context>>

\* _context_task after CancelledError reached task i
CancelledContextTask(i) == IF tasks[i].pc = "created" THEN context_task ELSE 0

\* CancelledError is delivered to the cancelled task
TaskCancelled(i) ==
  /\ tasks[i].pc \in {"created", "loading", "sending"}
  /\ tasks[i].cancel
  /\ tasks' = SetPc(i, "cancelled")
  /\ context_task' = CancelledContextTask(i)
  /\ Quiet(TaskStep("task_cancelled", i))
  /\ UNCHANGED <<relay_vars, patient_id, patient_profile, patient_context>>

(***************************************************************************)
(* SpecCtx: the patient context.  The injection API called with patient    *)
(* ids, the tasks it schedules, and a connection that may already have its *)
(* session and may be lost.                                                *)
(***************************************************************************)
CtxIn ==
  [ watch |-> {},
    session_created |-> EvSessionCreated({"S1"}),
    names |-> {"get_patient_history"},
    args |-> {[patient_id |-> " PATIENT002 "], [patient_id |-> "PATIENT001"],
              [patient_id |-> "PATIENT404"]},
    outputs |-> {None},
    silents |-> {TRUE},
    modalities |-> {<<>>} ]

NextCtx ==
  \/ Connect
  \/ RecvSessionCreated(CtxIn.session_created, CtxIn.watch)
  \/ Inject(CtxIn.names, CtxIn.args, CtxIn.outputs, CtxIn.silents, CtxIn.modalities,
            CtxIn.watch)
  \/ \E i \in TaskIds : TaskStart(i)
  \/ \E i \in TaskIds : TaskLoaded(i)
  \/ \E i \in TaskIds : TaskSent(i)
  \/ \E i \in TaskIds : TaskCancelled(i)
  \/ WsClose
  \/ RecvEnd

SpecCtx == Init /\ [][NextCtx]_vars

\* C8: a refresh task that was cancelled because another was scheduled
\* writes nothing to the shared relay state (patient_profile,
\* patient_context, _pending_background_payload, _context_task), and once
\* every task has ended the applied context is the one of the patient last
\* scheduled.
C8_CancelledTaskWritesNothing ==
  /\ [][last'.type = "task_cancelled" =>
          UNCHANGED <<patient_profile, patient_context, pending_background_payload,
                      context_task>>]_vars
  /\ []((tasks # <<>> /\ \A i \in TaskIds : TaskDone(tasks[i])) =>
          patient_context = build_patient_context(patient_id))

\* the state C8 fails in: task 1 was cancelled for task 2, and its finally
\* clause has cleared the reference to task 2, which is still to run
C8_ReferenceLost ==
  /\ last = TaskStep("task_cancelled", 1)
  /\ Len(tasks) = 2
  /\ ~TaskDone(tasks[2])
  /\ context_task = 0

(***************************************************************************)
(* SpecInject: the injection API, called with every shape of its           *)
(* arguments on a relay that is not yet connected, connected, in the       *)
(* middle of a response, or disconnected.                                  *)
(***************************************************************************)
InjectIn ==
  [ watch |-> {},
    session_created |-> EvSessionCreated({"S1"}),
    response_done |-> EvResponseDone({None}),
    names |-> {"get_patient_history", "check_order_status"},
    args |-> {[patient_id |-> Absent], [patient_id |-> "   "]},
    outputs |-> {None, "supplied output"},
    silents |-> BOOLEAN,
    modalities |-> {<<>>, <<"audio">>, <<"text">>, <<"bogus">>, <<"audio", "bogus">>} ]

NextInject ==
  \/ Connect
  \/ RecvSessionCreated(InjectIn.session_created, InjectIn.watch)
  \/ RecvResponseCreated(InjectIn.watch)
  \/ RecvResponseDone(InjectIn.response_done, InjectIn.watch)
  \/ Inject(InjectIn.names, InjectIn.args, InjectIn.outputs, InjectIn.silents,
            InjectIn.modalities, InjectIn.watch)
  \/ WsClose
  \/ RecvEnd

SpecInject == Init /\ [][NextInject]_vars

IsInject(call) == call.type = "inject_tool_result"

\* C9: inject_tool_result called on a connected relay with a modality
\* outside {text, audio, animation, avatar} fails with the validation error
\* and sends nothing upstream.
C9_InvalidSendsNothing ==
  (/\ IsInject(last)
   /\ last.outcome # "RuntimeError"
   /\ InvalidModalities(last.modalities) # {}) =>
    /\ last.outcome = "ValueError"
    /\ sent = <<>>

\* the state C9 fails in: the call failed with the validation error after
\* the function_call item and its output item were sent
C9_ItemsSentBeforeValidation ==
  /\ IsInject(last)
  /\ last.outcome = "ValueError"
  /\ last.modalities = <<"audio", "bogus">>
  /\ Len(sent) = 2
  /\ IsItem(sent[1], "function_call")
  /\ IsItem(sent[2], "function_call_output")

\* C10: inject_tool_result called on a connected relay with one valid
\* modality returns its call id and sends, after the function_call item and
\* the function_call_output item of that call id, exactly one
\* response.create, scoped to that modality, whatever silent is.
C10_OneScopedResponse ==
  (/\ IsInject(last)
   /\ last.outcome # "RuntimeError"
   /\ Len(last.modalities) = 1
   /\ InvalidModalities(last.modalities) = {}) =>
    /\ last.outcome = "ok"
    /\ Len(sent) = 3
    /\ IsItem(sent[1], "function_call")
    /\ IsItem(sent[2], "function_call_output")
    /\ sent[2].call_id = last.call_id
    /\ sent[3] = ScopedCreate(last.modalities)
    /\ NumResponseCreate(sent) = 1
    /\ response_in_progress

\* a silent injection with one valid modality that sent its scoped
\* response.create
C10_SilentScoped ==
  /\ IsInject(last)
  /\ last.silent
  /\ last.modalities = <<"text">>
  /\ last.outcome = "ok"
  /\ sent[3] = ScopedCreate(<<"text">>)

(***************************************************************************)
(* SpecSession: the session.created handler, reached once, twice or more,  *)
(* with each id the service may send (or none), before and after a         *)
(* response has started, and the teardown of the receive loop.             *)
(***************************************************************************)
SessionIn ==
  [ watch |-> {"mrr"},
    session_created |-> EvSessionCreated({"S1", "S2", None}),
    response_done |-> EvResponseDone({None}) ]

NextSession ==
  \/ Connect
  \/ RecvSessionCreated(SessionIn.session_created, SessionIn.watch)
  \/ RecvResponseCreated(SessionIn.watch)
  \/ RecvResponseDone(SessionIn.response_done, SessionIn.watch)
  \/ WsClose
  \/ RecvEnd

SpecSession == Init /\ [][NextSession]_vars

IsSessionCreated(ev) == ev.type = "session.created"

\* C11 as stated: the first session.created sends exactly one greeting
\* response.create, whatever the in-flight flag was before it.
C11_GreetingWhateverFlag ==
  [][(IsSessionCreated(last') /\ ~sent_auto_greeting /\ ws = "OPEN") =>
       NumResponseCreate(sent') = 1]_vars

\* C11: the greeting response.create is sent at most once per relay: a
\* session.created sends it exactly when no greeting was requested before,
\* no response is in flight and the connection is open; the greeting is then
\* marked as requested (also when the in-flight flag made the request a
\* no-op), the mark is never taken back, and every later session.created
\* sends no response.create.
C11_GreetingAtMostOnce ==
  [][/\ sent_auto_greeting => sent_auto_greeting'
     /\ IsSessionCreated(last') =>
          /\ NumResponseCreate(sent') =
               (IF ~sent_auto_greeting /\ ~response_in_progress /\ ws = "OPEN"
                  THEN 1 ELSE 0)
          /\ rx' = "running" => sent_auto_greeting']_vars

\* a second session.created (the relay is registered under both ids) that
\* found no response in flight and sent no greeting
C11_SecondSessionCreated ==
  /\ IsSessionCreated(last)
  /\ ACTIVE_HANDLERS["S1"] = Self
  /\ ACTIVE_HANDLERS["S2"] = Self
  /\ sent_auto_greeting
  /\ ~response_in_progress
  /\ NumResponseCreate(sent) = 0

\* C13: once set, session_id never changes: a later session.created
\* carrying a different or missing id leaves it as it is.
C13_SessionIdSetOnce == [][session_id # None => session_id' = session_id]_vars

\* C15: once the receive loop has terminated, no key of the session
\* registry maps to the relay.
C15_UnregisteredAfterLoop ==
  rx = "done" => \A k \in SessionIds : ACTIVE_HANDLERS[k] # Self

(***************************************************************************)
(* The legacy order registry (order_functions), which the relay does not   *)
(* import.  A reply is the sentence the handler returns; which of the two  *)
(* it is depends on whether the HTML template file is found.               *)
(***************************************************************************)
fetch_order_details(order_id, customer_id) ==
  CASE <<customer_id, order_id>> = <<"CUST001", "ORD12345">> -> "In Transit"
    [] <<customer_id, order_id>> = <<"CUST002", "ORD67890">> -> "Delivered"
    [] <<customer_id, order_id>> = <<"CUST003", "ORD11111">> -> "Processing"
    [] OTHER -> "Order Not Found"

check_order_status_handler(customer_id, order_id) ==
  LET status == fetch_order_details(order_id, customer_id)
  IN { "Order " \o order_id \o " status for customer " \o customer_id \o ": " \o status \o ".",
       "I found your order " \o order_id \o ". The status is " \o status \o "." }

(***************************************************************************)
(* upload_transcript: the buffer is handed to the store as it is.          *)
(* is_available() is decided by the configuration and store_conversation   *)
(* by the database; each call is taken with both answers of each.          *)
(***************************************************************************)
\* ConversationCosmosClient.store_conversation, when it succeeds: upsert_item
store_conversation(container, document_id, stored) ==
  [container EXCEPT ![document_id] = stored]

\* what upload_transcript returns
upload_transcript(available, success) ==
  IF ~available THEN FALSE
  ELSE IF transcripts = <<>> THEN TRUE
  ELSE success

\* variant: the store is written whether it is available or not
UploadTranscript_ignores_availability ==
  /\ \E available \in BOOLEAN, success \in BOOLEAN :
       /\ Quiet([type |-> "upload_transcript", available |-> available,
                 uploaded |-> upload_transcript(available, success)])
       /\ cosmos' =
            IF transcripts # <<>> /\ success
              THEN store_conversation(cosmos,
                                      IF session_id # None THEN session_id ELSE "guid",
                                      transcripts)
              ELSE cosmos
  /\ UNCHANGED <<ws, rx, fallback_voice, session_id, voice_in_use, voice_fallback_used,
                 response_in_progress, sent_auto_greeting, pending_background_payload,
                 last_email_readback, pending_email_readback, transcripts,
                 ACTIVE_HANDLERS, uuid_count, tx, send_queue, incoming_websocket,
                 enqueued, drained, config, connect_task, ctx_vars>>

\* web_ws, the UploadTranscript command: upload_transcript
UploadTranscript ==
  /\ \E available \in BOOLEAN, success \in BOOLEAN :
       /\ Quiet([type |-> "upload_transcript", available |-> available,
                 uploaded |-> upload_transcript(available, success)])
       /\ cosmos' =
            IF available /\ transcripts # <<>> /\ success
              THEN store_conversation(cosmos,
                                      IF session_id # None THEN session_id ELSE "guid",
                                      transcripts)
              ELSE cosmos
  /\ UNCHANGED <<ws, rx, fallback_voice, session_id, voice_in_use, voice_fallback_used,
                 response_in_progress, sent_auto_greeting, pending_background_payload,
                 last_email_readback, pending_email_readback, transcripts,
                 ACTIVE_HANDLERS, uuid_count, tx, send_queue, incoming_websocket,
                 enqueued, drained, config, connect_task, ctx_vars>>

(***************************************************************************)
(* SpecLoop: the receive loop fed with transcripts, assistant text,        *)
(* function calls, frames it has no case for and frames it cannot parse.   *)
(***************************************************************************)
OrderArgs == [customer_id |-> "CUST001", order_id |-> "ORD12345"]

LoopIn ==
  [ watch |-> {},
    session_created |-> EvSessionCreated({"S1"}),
    user_transcript |-> EvUserTranscript(Transcripts),
    output_item_done |->
      EvFunctionCall({"check_order_status", "get_patient_history"}, {TRUE}, {OrderArgs})
        \cup EvMessageItem,
    arguments_done |-> EvFunctionCallArgumentsDone({"call_1", None}),
    ignored |-> EvIgnored({"response.text.delta", "unknown.event"}),
    malformed |-> EvMalformed({"not_json", "not_object"}) ]

NextLoop ==
  \/ Connect
  \/ RecvSessionCreated(LoopIn.session_created, LoopIn.watch)
  \/ RecvUserTranscript(LoopIn.user_transcript, LoopIn.watch)
  \/ RecvTextDone(LoopIn.watch)
  \/ RecvOutputItemDone(LoopIn.output_item_done, LoopIn.watch)
  \/ RecvFunctionCallArgumentsDone(LoopIn.arguments_done, LoopIn.watch)
  \/ RecvIgnored(LoopIn.ignored, LoopIn.watch)
  \/ RecvMalformed(LoopIn.malformed, LoopIn.watch)
  \/ UploadTranscript
  \/ WsClose
  \/ RecvEnd

SpecLoop == Init /\ [][NextLoop]_vars

IsTextDone(ev) == ev.type = "response.text.done"

\* C12: the transcript buffer is append-only and ordered by arrival: a
\* user-transcript-completed frame appends exactly one entry of role user at
\* the end, a response.text.done frame exactly one of role assistant, and no
\* other step (upload_transcript included) changes the buffer.
C12_AppendOnly ==
  [][/\ IsUserTranscript(last') => transcripts' = Append(transcripts, "user")
     /\ IsTextDone(last') => transcripts' = Append(transcripts, "assistant")
     /\ (~IsUserTranscript(last') /\ ~IsTextDone(last')) => transcripts' = transcripts]_vars

\* one user turn followed by one assistant turn: two entries, user then
\* assistant
C12_UserThenAssistant ==
  /\ IsTextDone(last)
  /\ transcripts = <<"user", "assistant">>

\* C14: no single inbound frame makes the receive loop stop while the
\* connection is open.
C14_LoopSurvivesAnyFrame ==
  [][(rx = "running" /\ ws = "OPEN") => rx' = "running"]_vars

\* C19: a function-call item naming check_order_status with customer_id
\* CUST001 and order_id ORD12345 is answered upstream by the order-status
\* reply, which mentions "In Transit".
C19_OrderStatusResolved ==
  (/\ last.type = "response.output_item.done"
   /\ last.item_type = "function_call"
   /\ last.name = "check_order_status"
   /\ last.args = OrderArgs
   /\ sent # <<>>) =>
    sent[1].output \in check_order_status_handler("CUST001", "ORD12345")

\* the state C19 fails in: the function_call_output item sent for the
\* check_order_status call carries the unknown-function apology
C19_UnknownFunctionApology ==
  /\ last.type = "response.output_item.done"
  /\ last.name = "check_order_status"
  /\ last.args = OrderArgs
  /\ Len(sent) >= 1
  /\ IsItem(sent[1], "function_call_output")
  /\ sent[1].output = UnknownFunctionApology

(***************************************************************************)
(* inject_tool_result on a relay whose connection is not open, checked     *)
(* under SpecCtx, whose calls carry patient ids that schedule a refresh.   *)
(***************************************************************************)

\* C17: inject_tool_result called on a relay whose connection is not open
\* (never connected, closed by the peer, or torn down) fails with the
\* not-connected error, returns no call id, sends nothing upstream,
\* schedules no context refresh and leaves every field of the relay as it
\* was.
C17_NotConnectedFails ==
  [][(IsInject(last') /\ ws # "OPEN") =>
       /\ last'.outcome = "RuntimeError"
       /\ last'.call_id = None
       /\ sent' = <<>>
       /\ UNCHANGED <<relay_vars, ctx_vars>>]_vars

\* a call naming another patient than the current one, made after the peer
\* closed the connection, that failed and left the subject and the tasks
\* alone
C17_RejectedOnClosed ==
  /\ IsInject(last)
  /\ last.outcome = "RuntimeError"
  /\ last.args.patient_id = " PATIENT002 "
  /\ ws = "CLOSED"
  /\ patient_id = DefaultPatientId
  /\ context_task = 0
  /\ sent = <<>>

(***************************************************************************)
(* The outbound queue and _sender_loop.                                    *)
(***************************************************************************)
\* the binary messages of the client
AudioFrames == {<<0>>, <<255>>}

\* base64.b64encode(audio_bytes).decode("ascii")
b64encode(audio_bytes) == IF audio_bytes = <<0>> THEN "AA==" ELSE "/w=="

AudioAppend(audio_b64) == [type |-> "input_audio_buffer.append", audio |-> audio_b64]

\* audio_to_voicelive: the command is put at the end of the queue, whether
\* the relay is connected upstream or not
audio_to_voicelive(q, audio_b64) == Append(q, AudioAppend(audio_b64))

\* web_ws, a binary message: web_to_voicelive encodes it and queues it
AudioToVoicelive ==
  /\ incoming_websocket = "OPEN"
  /\ Len(enqueued) < MaxQueue
  /\ \E audio_bytes \in AudioFrames :
       /\ send_queue' = audio_to_voicelive(send_queue, b64encode(audio_bytes))
       /\ enqueued' = Append(enqueued, AudioAppend(b64encode(audio_bytes)))
  /\ Quiet([type |-> "audio_to_voicelive"])
  /\ UNCHANGED <<ws, rx, fallback_voice, session_id, voice_in_use, voice_fallback_used,
                 response_in_progress, sent_auto_greeting, pending_background_payload,
                 last_email_readback, pending_email_readback, transcripts,
                 ACTIVE_HANDLERS, uuid_count, tx, incoming_websocket, drained, cosmos,
                 config, connect_task, ctx_vars>>

\* variant: the loop sends without testing self.ws
SenderStep_unchecked ==
  LET msg == Head(send_queue)
  IN /\ tx = "running"
     /\ send_queue # <<>>
     /\ send_queue' = Tail(send_queue)
     /\ sent' = IF ws # "CLOSED" THEN <<msg>> ELSE <<>>
     /\ drained' = Append(drained, [msg |-> msg, written |-> ws # "CLOSED"])
     /\ tx' = IF ws = "CLOSED" THEN "done" ELSE "running"
     /\ last' = [type |-> "sender_step"]
     /\ UNCHANGED <<ws, rx, fallback_voice, session_id, voice_in_use, voice_fallback_used,
                    response_in_progress, sent_auto_greeting, pending_background_payload,
                    last_email_readback, pending_email_readback, transcripts,
                    ACTIVE_HANDLERS, uuid_count, incoming_websocket, enqueued, cosmos, config,
                    connect_task, ctx_vars,
                    outstanding, mrr_since_terminal, mrr_since_clear, voice_switches,
                    switches_since_session, rb_count, rb_open, rb_seen>>

\* variant: the loop takes the newest message of the queue
SenderStep_newest_first ==
  LET n == Len(send_queue)
      msg == send_queue[n]
  IN /\ tx = "running"
     /\ send_queue # <<>>
     /\ send_queue' = SubSeq(send_queue, 1, n - 1)
     /\ sent' = IF ws = "OPEN" THEN <<msg>> ELSE <<>>
     /\ drained' = Append(drained, [msg |-> msg, written |-> ws = "OPEN"])
     /\ tx' = IF ws = "CLOSED" THEN "done" ELSE "running"
     /\ last' = [type |-> "sender_step"]
     /\ UNCHANGED <<ws, rx, fallback_voice, session_id, voice_in_use, voice_fallback_used,
                    response_in_progress, sent_auto_greeting, pending_background_payload,
                    last_email_readback, pending_email_readback, transcripts,
                    ACTIVE_HANDLERS, uuid_count, incoming_websocket, enqueued, cosmos, config,
                    connect_task, ctx_vars,
                    outstanding, mrr_since_terminal, mrr_since_clear, voice_switches,
                    switches_since_session, rb_count, rb_open, rb_seen>>

\* one iteration of _sender_loop: the oldest message is taken from the
\* queue; it is sent when self.ws is set and dropped when it is not; a send
\* on a connection that is no longer open raises, which ends the loop
SenderStep ==
  LET msg == Head(send_queue)
  IN /\ tx = "running"
     /\ send_queue # <<>>
     /\ send_queue' = Tail(send_queue)
     /\ sent' = IF ws = "OPEN" THEN <<msg>> ELSE <<>>
     /\ drained' = Append(drained, [msg |-> msg, written |-> ws = "OPEN"])
     /\ tx' = IF ws = "CLOSED" THEN "done" ELSE "running"
     /\ last' = [type |-> "sender_step"]
     /\ UNCHANGED <<ws, rx, fallback_voice, session_id, voice_in_use, voice_fallback_used,
                    response_in_progress, sent_auto_greeting, pending_background_payload,
                    last_email_readback, pending_email_readback, transcripts,
                    ACTIVE_HANDLERS, uuid_count, incoming_websocket, enqueued, cosmos, config,
                    connect_task, ctx_vars,
                    outstanding, mrr_since_terminal, mrr_since_clear, voice_switches,
                    switches_since_session, rb_count, rb_open, rb_seen>>

\* web_ws: websocket.receive() fails because the client closed; the
\* exception is logged and the endpoint returns
ClientClose ==
  /\ incoming_websocket = "OPEN"
  /\ incoming_websocket' = "CLOSED"
  /\ Quiet([type |-> "client_closed"])
  /\ UNCHANGED <<ws, rx, fallback_voice, session_id, voice_in_use, voice_fallback_used,
                 response_in_progress, sent_auto_greeting, pending_background_payload,
                 last_email_readback, pending_email_readback, transcripts,
                 ACTIVE_HANDLERS, uuid_count, tx, send_queue, enqueued, drained, cosmos,
                 config, connect_task, ctx_vars>>

(***************************************************************************)
(* SpecDrain: the two loops of a relay, the client's audio and the client  *)
(* going away.  The event                                                  *)
(* loop runs a coroutine that is ready: the sender loop when a message is  *)
(* queued, the receive loop when a frame or the end of the connection is   *)
(* there to be read.                                                       *)
(***************************************************************************)
DrainIn ==
  [ watch |-> {},
    session_created |-> EvSessionCreated({"S1"}),
    malformed |-> EvMalformed({"not_json", "not_object"}) ]

NextDrain ==
  \/ Connect
  \/ RecvSessionCreated(DrainIn.session_created, DrainIn.watch)
  \/ RecvMalformed(DrainIn.malformed, DrainIn.watch)
  \/ AudioToVoicelive
  \/ SenderStep
  \/ ClientClose
  \/ WsClose
  \/ RecvEnd

SpecDrain ==
  Init /\ [][NextDrain]_vars /\ WF_vars(SenderStep) /\ WF_vars(RecvEnd)

\* C16: once the receive loop has terminated (and cleared self.ws), the
\* sender loop eventually terminates.
C16_DrainLoopExits == (rx = "done") ~> (tx = "done")

\* the state C16 fails in: the receive loop is over, self.ws is cleared, and
\* the sender loop has taken a message from the queue, dropped it and gone
\* back to waiting
C16_DrainsAfterTeardown ==
  /\ rx = "done"
  /\ ws = "NONE"
  /\ last.type = "sender_step"
  /\ sent = <<>>
  /\ tx = "running"

(***************************************************************************)
(* api_run_tool (POST /api/tools/run).  A request is the parsed body:      *)
(* session_id and function_name are Absent when missing or empty;          *)
(* arguments is [kind, value] with kind "object", "falsy" (missing, null   *)
(* or an empty non-object, which "or {}" replaces by {}) or "non_object";  *)
(* response_modalities is [kind, value] with kind "none", "not_list" or    *)
(* "list"; silent is bool(payload.get("silent", True)).                    *)
(***************************************************************************)
EmptyArgs == [patient_id |-> Absent]
UnhashableId == "UnhashableId"

get_active_handler(sid) ==
  IF sid \in DOMAIN ACTIVE_HANDLERS THEN ACTIVE_HANDLERS[sid] ELSE NoHandler

\* the status api_run_tool answers with before it calls the relay; 0 when
\* it goes on to inject_tool_result.  A session id that cannot be a
\* dictionary key makes the registry lookup raise, which nothing catches.
ApiPrecheck(req) ==
  IF ~req.body_is_object THEN 400
  ELSE IF req.session_id = Absent \/ req.function_name = Absent THEN 400
  ELSE IF req.session_id = UnhashableId THEN 500
  ELSE IF get_active_handler(req.session_id) = NoHandler THEN 404
  ELSE IF req.response_modalities.kind = "not_list" THEN 400
  ELSE IF req.arguments.kind = "non_object" THEN 400
  ELSE 0

ApiArguments(req) ==
  IF req.arguments.kind = "object" THEN req.arguments.value ELSE EmptyArgs

ApiModalities(req) ==
  IF req.response_modalities.kind = "list" THEN req.response_modalities.value ELSE <<>>

ApiStep(req, status, call_id) ==
  [type |-> "api_run_tool", request |-> req, status |-> status, call_id |-> call_id]

ApiRunTool(req) ==
  LET early == ApiPrecheck(req)
      args == ApiArguments(req)
      modalities == ApiModalities(req)
  IN IF early # 0
       THEN /\ Quiet(ApiStep(req, early, None))
            /\ UNCHANGED <<relay_vars, ctx_vars>>
     ELSE IF ~_is_ws_connected
       THEN /\ Quiet(ApiStep(req, 500, None))
            /\ UNCHANGED <<relay_vars, ctx_vars>>
     ELSE LET call_id == _generate_call_id(uuid_count)
              c == InjectSchedule(CurCtx, args)
              out == InjectSends(call_id, req.function_name, args, req.output,
                                 req.silent, modalities)
              outcome == InjectOutcome(modalities)
          IN /\ uuid_count < MaxUuid
             /\ Len(c.tasks) <= MaxTasks
             /\ uuid_count' = uuid_count + 1
             /\ patient_id' = c.patient_id
             /\ tasks' = c.tasks
             /\ context_task' = c.context_task
             /\ sent' = out
             /\ response_in_progress' =
                  IF outcome = "ok" /\ NumResponseCreate(out) > 0 THEN TRUE
                  ELSE response_in_progress
             /\ last' = IF outcome = "ok" THEN ApiStep(req, 200, call_id)
                        ELSE ApiStep(req, 500, None)
             /\ UNCHANGED <<ws, rx, fallback_voice, session_id, voice_in_use,
                            voice_fallback_used, sent_auto_greeting,
                            pending_background_payload, last_email_readback,
                            pending_email_readback, transcripts, ACTIVE_HANDLERS,
                            tx_vars, patient_profile, patient_context, outstanding,
                            mrr_since_terminal, mrr_since_clear, voice_switches,
                            switches_since_session, rb_count, rb_open, rb_seen>>

(***************************************************************************)
(* SpecApi: the injection API called with every shape of body, for a       *)
(* session that is registered, not registered, or no longer connected.     *)
(***************************************************************************)
ApiRequests ==
  { [body_is_object |-> b, session_id |-> sid, function_name |-> fn,
     arguments |-> a, output |-> "supplied output", silent |-> TRUE,
     response_modalities |-> m] :
      b \in BOOLEAN,
      sid \in {Absent, "S1", "S2", UnhashableId},
      fn \in {Absent, "get_patient_history"},
      a \in {[kind |-> "object", value |-> EmptyArgs],
             [kind |-> "falsy", value |-> EmptyArgs],
             [kind |-> "non_object", value |-> EmptyArgs]},
      m \in {[kind |-> "none", value |-> <<>>],
             [kind |-> "not_list", value |-> <<>>],
             [kind |-> "list", value |-> <<"audio">>],
             [kind |-> "list", value |-> <<"bogus">>]} }

ApiIn ==
  [ watch |-> {},
    session_created |-> EvSessionCreated({"S1"}),
    response_done |-> EvResponseDone({None}),
    requests |-> ApiRequests ]

NextApi ==
  \/ Connect
  \/ RecvSessionCreated(ApiIn.session_created, ApiIn.watch)
  \/ RecvResponseDone(ApiIn.response_done, ApiIn.watch)
  \/ \E req \in ApiIn.requests : ApiRunTool(req)
  \/ WsClose
  \/ RecvEnd

SpecApi == Init /\ [][NextApi]_vars

IsApiRunTool(step) == step.type = "api_run_tool"

\* C18: a request that names an active session and a function, with an
\* object for arguments and a list for response_modalities that holds a
\* value outside the allowed set, is answered 400 and sends nothing upstream.
C18_InvalidModalitiesAnswered400 ==
  (/\ IsApiRunTool(last)
   /\ last.request.body_is_object
   /\ last.request.function_name # Absent
   /\ get_active_handler(last.request.session_id) = Self
   /\ ws = "OPEN"
   /\ last.request.arguments.kind = "object"
   /\ last.request.response_modalities.kind = "list"
   /\ InvalidModalities(last.request.response_modalities.value) # {}) =>
    /\ last.status = 400
    /\ sent = <<>>

\* the state C18 fails in: the request with the invalid modality was
\* answered 500 after the function_call item and its output were sent
C18_Answered500AfterItems ==
  /\ IsApiRunTool(last)
  /\ last.request.response_modalities = [kind |-> "list", value |-> <<"bogus">>]
  /\ last.status = 500
  /\ Len(sent) = 2
  /\ IsItem(sent[1], "function_call")
  /\ IsItem(sent[2], "function_call_output")

(***************************************************************************)
(* SpecTools: handle_function_call applied to every name and every         *)
(* argument mapping of ToolsIn: keys missing, keys in excess, values that  *)
(* make a handler fail.                                                    *)
(***************************************************************************)
ToolArgs ==
  { [patient_id |-> p, appointment_type |-> t, preferred_date |-> d,
     medication_name |-> m, extra |-> x] :
      p \in {Absent, "PATIENT001", "PATIENT404"},
      t \in {Absent, "Follow-up", NonStr},
      d \in {Absent, "Monday"},
      m \in {Absent, "Lisinopril"},
      x \in {Absent, "x"} }

ToolsIn ==
  [ names |-> FUNCTION_HANDLERS \cup {"check_order_status"},
    args |-> ToolArgs ]

Invoke(names, argss) ==
  /\ \E n \in names, a \in argss :
       Quiet([type |-> "handle_function_call", function_name |-> n, args |-> a,
              result |-> handle_function_call(n, a)])
  /\ UNCHANGED <<relay_vars, ctx_vars>>

NextTools == Invoke(ToolsIn.names, ToolsIn.args)

SpecTools == Init /\ [][NextTools]_vars

IsInvoke(step) == step.type = "handle_function_call"

\* C20: handle_function_call never raises: for every function name and
\* every argument mapping it returns a string, which is the unknown-function
\* apology for a name that is not registered and the handler-error apology
\* when the call of the handler raised (keys that are not the handler's
\* parameters, or a value the handler fails on).
C20_InvokeNeverRaises ==
  IsInvoke(last) =>
    /\ last.result # Raised
    /\ last.result \in STRING
    /\ last.function_name \notin FUNCTION_HANDLERS =>
         last.result = UnknownFunctionApology
    /\ (/\ last.function_name \in FUNCTION_HANDLERS
        /\ \/ ArgKeys(last.args) # RequiredParams(last.function_name)
           \/ (last.function_name = "schedule_appointment"
                 /\ last.args.appointment_type = NonStr)) =>
         last.result = HandlerErrorApology

\* a call of schedule_appointment with exactly its parameters whose handler
\* raised on the appointment type, answered with the handler-error apology
C20_HandlerRaised ==
  /\ IsInvoke(last)
  /\ last.function_name = "schedule_appointment"
  /\ ArgKeys(last.args) = RequiredParams("schedule_appointment")
  /\ last.args.appointment_type = NonStr
  /\ last.result = HandlerErrorApology

(***************************************************************************)
(* The in-flight flag, checked under Spec.                                 *)
(***************************************************************************)

\* C21 as stated: the flag changes from false to true only in a step that
\* sends a response.create, and from true to false only in the dispatch of
\* a terminal response event.
C21_SendAndTerminalOnly ==
  [][/\ (~response_in_progress /\ response_in_progress') =>
          NumResponseCreate(sent') > 0
     /\ (response_in_progress /\ ~response_in_progress') => IsTerminal(last')]_vars

\* C21: the flag changes from false to true only in a step that sends a
\* response.create or in the dispatch of response.created, and from true to
\* false only in the dispatch of a terminal response event or of an error
\* event whose code is not conversation_already_has_active_response.
C21_FlagTransitions ==
  [][/\ (~response_in_progress /\ response_in_progress') =>
          (NumResponseCreate(sent') > 0 \/ last'.type = "response.created")
     /\ (response_in_progress /\ ~response_in_progress') => ClearsFlag(last')]_vars

\* an error event that cleared the flag while a response.create was still
\* unanswered by any terminal event
C21_ClearedByError ==
  /\ last.type = "error"
  /\ last.code = "other_error"
  /\ ~response_in_progress
  /\ outstanding = 1

\* C22: when the client's connection closes, the relay is eventually torn
\* down: its receive loop ends, its upstream connection is dropped and no
\* registry key maps to it.
C22_DestroyedOnClientClose ==
  (incoming_websocket = "CLOSED") ~>
    (/\ rx = "done"
     /\ ws = "NONE"
     /\ \A k \in SessionIds : ACTIVE_HANDLERS[k] # Self)

\* the state C22 fails in: the client is gone and the relay is still
\* connected upstream, registered, with both loops running
C22_OrphanedRelay ==
  /\ incoming_websocket = "CLOSED"
  /\ last.type = "client_closed"
  /\ ws = "OPEN"
  /\ rx = "running"
  /\ tx = "running"
  /\ ACTIVE_HANDLERS["S1"] = Self

(***************************************************************************)
(* The error paths of a response with a readback pending: SpecEmail for    *)
(* the error event, Spec for the four terminal events.                     *)
(***************************************************************************)
FallbackTriggers == {"response.done", "response.failed", "error"}

\* C23: a dispatch in which the voice fallback fires (it sent the
\* session.update naming the fallback voice) sent no response.create before
\* that session.update and exactly one after it, also when an email
\* readback was pending.
C23_SwitchThenRequest ==
  (last.type \in FallbackTriggers /\ NumSessionUpdate(sent) = 1) =>
    LET i == CHOOSE j \in 1..Len(sent) : IsSessionUpdate(sent[j])
    IN /\ sent[i] = session_config(fallback_voice)
       /\ \A j \in 1..(i - 1) : ~IsResponseCreate(sent[j])
       /\ Cardinality({j \in (i + 1)..Len(sent) : IsResponseCreate(sent[j])}) = 1

\* the state C23 fails in: the error event found a readback pending, so the
\* spelled-out fallback response.create went out first, the session.update
\* after it, and no response.create followed the switch
C23_RequestBeforeSwitch ==
  /\ last.type = "error"
  /\ last.code = SynthesisCode
  /\ Len(sent) = 2
  /\ IsFallbackCreate(sent[1])
  /\ sent[2] = session_config(FallbackVoice)
  /\ voice_in_use = FallbackVoice

\* C24: the dispatch of an error event whose code is
\* conversation_already_has_active_response sends nothing upstream and
\* changes no field of the relay: the in-flight flag, the pending readback
\* record and the voice-fallback state stay as they were.
C24_ActiveResponseIgnored ==
  [][(last'.type = "error" /\ last'.code = ActiveResponseCode) =>
       /\ sent' = <<>>
       /\ UNCHANGED <<relay_vars, ctx_vars>>]_vars

\* the error arrived while a response was in flight and a readback pending,
\* and both are still so
C24_IgnoredWhilePending ==
  /\ last.type = "error"
  /\ last.code = ActiveResponseCode
  /\ response_in_progress
  /\ pending_email_readback # NoPendingReadback
  /\ sent = <<>>

\* C25: after the dispatch of a terminal response event the pending
\* readback record is empty; a fallback response.create is sent only in a
\* step that finds a record pending and leaves none, one per step; and a
\* record comes into being only in a step that sends the readback request
\* itself, so a fallback never re-creates one.
C25_PendingCleared ==
  /\ [](IsTerminal(last) => pending_email_readback = NoPendingReadback)
  /\ [][/\ NumFallbackCreate(sent') > 0 =>
             /\ NumFallbackCreate(sent') = 1
             /\ pending_email_readback # NoPendingReadback
             /\ pending_email_readback' = NoPendingReadback
        /\ (/\ pending_email_readback = NoPendingReadback
            /\ pending_email_readback' # NoPendingReadback) =>
             NumReadbackCreate(sent') = 1]_vars

\* a response.failed that found the readback pending, sent the one
\* fallback and left no record
C25_FallbackAfterFailed ==
  /\ last.type = "response.failed"
  /\ NumFallbackCreate(sent) = 1
  /\ pending_email_readback = NoPendingReadback
  /\ response_in_progress

(***************************************************************************)
(* The background context, checked under SpecCtx.                          *)
(***************************************************************************)
BackgroundMessages(q) == {i \in 1..Len(q) : IsItem(q[i], "message")}

SchedIn ==
  [ watch |-> {},
    limit |-> MaxSchedules,
    names |-> {"get_patient_history"},
    args |-> {[patient_id |-> " PATIENT002 "], [patient_id |-> "PATIENT001"],
              [patient_id |-> "PATIENT404"]},
    outputs |-> {"supplied output"},
    silents |-> {TRUE},
    modalities |-> {<<>>} ]

Schedule(limit, names, argss, outputs, silents, modss, W) ==
  \E n \in names, a \in argss, o \in outputs, sl \in silents, m \in modss :
    InjectToolResultUpTo(limit, n, a, o, sl, m, W)

NextSched ==
  \/ Connect
  \/ Schedule(SchedIn.limit, SchedIn.names, SchedIn.args, SchedIn.outputs,
              SchedIn.silents, SchedIn.modalities, SchedIn.watch)
  \/ \E i \in TaskIds : TaskStart(i)
  \/ \E i \in TaskIds : TaskLoaded(i)
  \/ \E i \in TaskIds : TaskCancelled(i)

SpecSched == Init /\ [][NextSched]_vars

\* the tasks that were created, have not finished and were not cancelled
InFlight(ts) == {i \in 1..Len(ts) : ~TaskDone(ts[i]) /\ ~ts[i].cancel}

\* C27: at every moment at most one refresh task is in flight.
C27_AtMostOneInFlight == Cardinality(InFlight(tasks)) <= 1

\* the state C27 fails in: two tasks are loading, neither cancelled
C27_TwoLoading ==
  \E i, j \in InFlight(tasks) :
    /\ i # j
    /\ tasks[i].pc = "loading"
    /\ tasks[j].pc = "loading"

\* C28: a call that names the current patient while a profile is loaded
\* starts no task, cancels none and changes nothing of the context; every
\* other call that names a patient starts exactly one task and leaves every
\* task that was in flight cancelled.
C28_NoOpOrCancelAndStart ==
  [][(IsInject(last') /\ last'.outcome = "ok" /\ HasPatientId(last'.args)) =>
       IF Strip(last'.args.patient_id) = patient_id /\ patient_profile # None
         THEN UNCHANGED ctx_vars
         ELSE /\ Len(tasks') = Len(tasks) + 1
              /\ InFlight(tasks') = {Len(tasks')}]_vars

\* the state C28 fails in: the call started its task and a task started
\* earlier is still in flight, not cancelled
C28_RunningTaskNotCancelled ==
  /\ IsInject(last)
  /\ Len(tasks) = 3
  /\ tasks[3].pc = "created"
  /\ 2 \in InFlight(tasks)
  /\ context_task = 3


\* the messages _sender_loop took from the queue, in the order it took them
DrainedMsgs == [i \in 1..Len(drained) |-> drained[i].msg]

\* C30: the messages are taken from the queue in the order they were put on
\* it, each once (what was put is what was taken followed by what still
\* waits), a step of the sender loop writes nothing but the message it took,
\* and, the sender loop being scheduled fairly, the k-th message put on the
\* queue is eventually written unless the upstream connection stops being
\* open.
C30_FifoAndEventuallyWritten ==
  /\ [](enqueued = DrainedMsgs \o send_queue)
  /\ []((last.type = "sender_step" /\ sent # <<>>) =>
          /\ sent = <<enqueued[Len(drained)]>>
          /\ drained[Len(drained)].written)
  /\ \A k \in 1..MaxQueue :
       (Len(enqueued) >= k /\ ws = "OPEN")
         ~> (ws # "OPEN" \/ (Len(drained) >= k /\ drained[k].written))

\* two different audio frames were queued before the relay was connected and
\* both were written, the older one first
C30_TwoWrittenInOrder ==
  /\ Len(drained) = 2
  /\ drained[1].msg # drained[2].msg
  /\ drained[1].written
  /\ drained[2].written
  /\ last.type = "sender_step"
  /\ sent = <<enqueued[2]>>
  /\ ws = "OPEN"


(***************************************************************************)
(* SpecPaths: everything that writes to the upstream connection of one     *)
(* relay: connect, the receive loop, the injection API and the sender loop *)
(* with the client's audio.                                                *)
(***************************************************************************)
PathsIn ==
  [ watch |-> {},
    session_created |-> EvSessionCreated({"S1"}),
    response_done |-> EvResponseDone({None}),
    names |-> {"check_order_status"},
    args |-> {EmptyArgs},
    outputs |-> {"supplied output"},
    silents |-> BOOLEAN,
    modalities |-> {<<>>} ]

NextPaths ==
  \/ Connect
  \/ RecvSessionCreated(PathsIn.session_created, PathsIn.watch)
  \/ RecvResponseCreated(PathsIn.watch)
  \/ RecvResponseDone(PathsIn.response_done, PathsIn.watch)
  \/ Inject(PathsIn.names, PathsIn.args, PathsIn.outputs, PathsIn.silents,
            PathsIn.modalities, PathsIn.watch)
  \/ AudioToVoicelive
  \/ SenderStep
  \/ WsClose
  \/ RecvEnd

SpecPaths == Init /\ [][NextPaths]_vars

\* the steps of _receiver_loop: the dispatch of one frame
ReceiverLoopTypes ==
  TerminalTypes \cup
    {"session.created", "input_audio_buffer.speech_stopped",
     "conversation.item.input_audio_transcription.completed", "response.created",
     "response.text.done", "response.output_item.done",
     "response.function_call_arguments.done", "error", "malformed"}

\* C29: a step that writes a command to the upstream connection is a step
\* of the sender loop, and a step that changes the in-flight flag is a step
\* of the receive loop.
C29_QueueAndLoopOnly ==
  [][/\ (sent' # <<>>) => last'.type = "sender_step"
     /\ (response_in_progress' # response_in_progress) =>
          last'.type \in ReceiverLoopTypes]_vars

\* the state C29 fails in: a call of inject_tool_result wrote its two items
\* and a response.create to the connection while an audio command was
\* waiting in the queue, and set the flag itself
C29_InjectWritesPastQueue ==
  /\ IsInject(last)
  /\ last.outcome = "ok"
  /\ NumResponseCreate(sent) = 1
  /\ Len(sent) = 3
  /\ response_in_progress
  /\ send_queue # <<>>
  /\ tx = "running"


(***************************************************************************)
(* The injection API, checked under SpecInject.                            *)
(***************************************************************************)

\* the call ids _generate_call_id handed out in the first n calls
HandedOut(n) == {_generate_call_id(i) : i \in 0..(n - 1)}

\* C31: a call of inject_tool_result that returns writes a function_call
\* item and then a function_call_output item, both carrying the call id it
\* returns, a call id no earlier call was given, and after them nothing when
\* silent without modalities, one plain response.create when not silent
\* without modalities, and one response.create scoped to the modalities
\* when modalities are given.
C31_ItemsThenRequest ==
  [][(IsInject(last') /\ last'.outcome = "ok") =>
       /\ last'.call_id # None
       /\ last'.call_id \notin HandedOut(uuid_count)
       /\ Len(sent') >= 2
       /\ IsItem(sent'[1], "function_call")
       /\ sent'[1].call_id = last'.call_id
       /\ IsItem(sent'[2], "function_call_output")
       /\ sent'[2].call_id = last'.call_id
       /\ SubSeq(sent', 3, Len(sent')) =
            IF last'.modalities # <<>> THEN <<ScopedCreate(last'.modalities)>>
            ELSE IF ~last'.silent THEN <<ResponseCreate>>
            ELSE <<>>]_vars

\* a second injection, silent and with modalities, that returned the second
\* call id after its two items and a scoped response.create
C31_SilentScopedSecondCall ==
  /\ IsInject(last)
  /\ last.outcome = "ok"
  /\ last.silent
  /\ last.modalities = <<"audio">>
  /\ last.call_id = _generate_call_id(1)
  /\ sent[1].call_id = last.call_id
  /\ sent[2].call_id = last.call_id
  /\ sent[3] = ScopedCreate(<<"audio">>)
  /\ Len(sent) = 3


(***************************************************************************)
(* The transcript store, checked under SpecLoop.                           *)
(***************************************************************************)

\* C32: the store changes only in a step of upload_transcript, and there
\* only when it is available; a step of upload_transcript leaves the
\* buffer, the upstream connection and the client's connection as they
\* were, and answers false when the store is not available.
C32_StoredOnRequestOnly ==
  [][/\ (cosmos' # cosmos) =>
          (last'.type = "upload_transcript" /\ last'.available)
     /\ (last'.type = "upload_transcript") =>
          /\ UNCHANGED <<transcripts, ws, rx, incoming_websocket>>
          /\ (~last'.available => (~last'.uploaded /\ cosmos' = cosmos))]_vars

\* the store holds the conversation of session S1, the receive loop has
\* since ended, and an upload asked for while the store was not available
\* was answered false and left the document and the buffer alone
C32_RefusedAfterStored ==
  /\ last.type = "upload_transcript"
  /\ ~last.available
  /\ ~last.uploaded
  /\ rx = "done"
  /\ Len(transcripts) = 2
  /\ cosmos["S1"] # NoDocument
  /\ cosmos["S1"] # transcripts


(***************************************************************************)
(* The first command of a connection, checked under SpecPaths.             *)
(***************************************************************************)

\* C33: the receive loop leaves its initial state only in connect; until
\* then no step writes a command upstream and the sender loop has taken
\* nothing from the queue; and what connect writes is the session.update of
\* the voice in use and nothing else.
C33_SessionUpdateFirst ==
  /\ [](rx = "idle" => (drained = <<>> /\ tx = "idle"))
  /\ [][/\ (rx = "idle" /\ rx' # "idle") => last'.type = "connect"
        /\ (rx = "idle" /\ sent' # <<>>) => last'.type = "connect"
        /\ (last'.type = "connect") =>
             /\ rx = "idle"
             /\ sent' = <<session_config(voice_in_use')>>]_vars

\* connect wrote the session.update while audio the client had sent during
\* the handshake was waiting in the queue, none of it taken yet
C33_AudioQueuedDuringHandshake ==
  /\ last.type = "connect"
  /\ Len(send_queue) = 2
  /\ drained = <<>>
  /\ sent = <<session_config(voice_in_use)>>
  /\ tx = "running"


(***************************************************************************)
(* SpecConnect: a relay constructed with any configuration of the endpoint *)
(* and the model, connected once by web_ws while the client sends audio.   *)
(***************************************************************************)
Configs ==
  [endpoint : {None, "", DefaultConfig.endpoint},
   model : {None, "", DefaultConfig.model}]

InitConnect == InitWith(Configs)

ConnectIn ==
  [ watch |-> {},
    session_created |-> EvSessionCreated({"S1"}) ]

NextConnect ==
  \/ Connect
  \/ ConnectFails
  \/ ConnectRefused
  \/ RecvSessionCreated(ConnectIn.session_created, ConnectIn.watch)
  \/ AudioToVoicelive
  \/ SenderStep
  \/ WsClose
  \/ RecvEnd

SpecConnect == InitConnect /\ [][NextConnect]_vars

\* C34: when the endpoint or the model is missing from the configuration,
\* connect ends with the configuration error, having requested no
\* credential, opened no connection and started neither loop, and the relay
\* is as __init__ left it.
C34_MissingConfigFails ==
  [][(/\ connect_task = "pending"
      /\ connect_task' # "pending"
      /\ (config.endpoint \in Missing \/ config.model \in Missing)) =>
       /\ last'.type = "connect_failed"
       /\ last'.error = "ValueError"
       /\ ~last'.token_requested
       /\ ws' = "NONE"
       /\ rx' = "idle"
       /\ tx' = "idle"
       /\ sent' = <<>>
       /\ UNCHANGED <<session_id, voice_in_use, response_in_progress, ctx_vars>>]_vars

\* the state C34 fails in: the model is the empty string and connect has
\* opened the connection, configured the session and started both loops
C34_ConnectedWithoutModel ==
  /\ config.model = ""
  /\ last.type = "connect"
  /\ connect_task = "done"
  /\ ws = "OPEN"
  /\ rx = "running"
  /\ tx = "running"
  /\ sent = <<session_config(voice_in_use)>>


(***************************************************************************)
(* The applied patient context, checked under SpecSched.                   *)
(***************************************************************************)

\* every refresh task that was created has finished or was cancelled
AllTasksOver ==
  /\ tasks # <<>>
  /\ \A i \in 1..Len(tasks) : TaskDone(tasks[i])

\* C35: once every refresh task has finished or was cancelled, the profile
\* and the overview the relay holds are those of patient_id, the patient
\* named by the last call that scheduled a refresh.
C35_LastScheduledApplied ==
  AllTasksOver =>
    /\ patient_profile = get_patient_profile(patient_id)
    /\ patient_context = build_patient_context(patient_id)

\* the state C35 fails in: three calls were made, no task is left, and the
\* relay holds the profile of the patient of the second call while
\* patient_id names the patient of the third
C35_StaleContextApplied ==
  /\ AllTasksOver
  /\ Len(tasks) = 3
  /\ patient_id = "PATIENT002"
  /\ tasks[2].pid = "PATIENT001"
  /\ patient_profile = get_patient_profile("PATIENT001")
  /\ patient_context = build_patient_context("PATIENT001")


(***************************************************************************)
(* The session registry of one relay, checked under SpecSession.           *)
(***************************************************************************)

\* C36: every key of the registry that maps to the relay is the relay's
\* current session id, and the relay's receive loop has not terminated.
C36_RegistryConsistent ==
  \A k \in SessionIds :
    ACTIVE_HANDLERS[k] = Self => (session_id = k /\ rx # "done")

\* the state C36 fails in: a second session.created carried another id, and
\* the relay is registered under both while its session id is the later one
C36_RegisteredUnderEarlierId ==
  /\ IsSessionCreated(last)
  /\ last.id = "S2"
  /\ session_id = "S2"
  /\ ACTIVE_HANDLERS["S1"] = Self
  /\ ACTIVE_HANDLERS["S2"] = Self
  /\ rx = "running"


(***************************************************************************)
(* SpecRegistry: the registry shared by the relay and a second relay,      *)
(* Peer, whose receive loop runs throughout.  Of Peer only what it does to *)
(* the registry is kept: its session.created case registers it under the   *)
(* id the service sent.                                                    *)
(***************************************************************************)
Peer == "B"

RegistryIn ==
  [ watch |-> {},
    session_created |-> EvSessionCreated({"S1", "S2"}) ]

\* _receiver_loop of Peer, session.created: _register_handler(session_id, self)
PeerSessionCreated ==
  /\ \E k \in SessionIds :
       /\ ACTIVE_HANDLERS' = _register_handler(ACTIVE_HANDLERS, k, Peer)
       /\ Quiet([type |-> "peer_session_created", id |-> k])
  /\ UNCHANGED <<ws, rx, fallback_voice, session_id, voice_in_use, voice_fallback_used,
                 response_in_progress, sent_auto_greeting, pending_background_payload,
                 last_email_readback, pending_email_readback, transcripts,
                 uuid_count, tx_vars, ctx_vars>>

NextRegistry ==
  \/ Connect
  \/ RecvSessionCreated(RegistryIn.session_created, RegistryIn.watch)
  \/ PeerSessionCreated
  \/ WsClose
  \/ RecvEnd

SpecRegistry == Init /\ [][NextRegistry]_vars

\* C37: the end of the relay's receive loop leaves every registry entry
\* that maps to Peer in place.
C37_TeardownKeepsPeerEntry ==
  [][(last'.type = "receiver_end") =>
       \A k \in SessionIds :
         ACTIVE_HANDLERS[k] = Peer => ACTIVE_HANDLERS'[k] = Peer]_vars


(***************************************************************************)
(* The voice the upstream session is configured with, checked under        *)
(* SpecVoice.                                                              *)
(***************************************************************************)

\* the voice named in the last session.update written: connect writes one
\* naming the primary voice, and every later one is written by
\* _switch_voice and names the fallback voice
UpstreamVoice == IF voice_switches > 0 THEN fallback_voice ELSE PrimaryVoice

\* C38: once connect has configured the session, voice_in_use is the voice
\* named in the most recent session.update the relay wrote.
C38_VoiceInUseIsConfigured == (rx # "idle") => voice_in_use = UpstreamVoice

\* the state C38 fails in: after a switch to the fallback voice a
\* session.created has put voice_in_use back to the primary voice, while
\* the last session.update written names the fallback voice
C38_ResetWithoutUpdate ==
  /\ IsSessionCreated(last)
  /\ voice_switches = 1
  /\ UpstreamVoice = FallbackVoice
  /\ voice_in_use = PrimaryVoice
  /\ ~voice_fallback_used
  /\ NumSessionUpdate(sent) = 0
  /\ ws = "OPEN"


(***************************************************************************)
(* SpecTeardown: what still runs after the receive loop has ended: the     *)
(* sender loop with the client's audio, the injection API and the refresh  *)
(* tasks it scheduled.                                                     *)
(***************************************************************************)
TeardownIn ==
  [ watch |-> {},
    session_created |-> EvSessionCreated({"S1"}),
    names |-> {"get_patient_history"},
    args |-> {[patient_id |-> " PATIENT002 "]},
    outputs |-> {"supplied output"},
    silents |-> {FALSE},
    modalities |-> {<<>>} ]

NextTeardown ==
  \/ Connect
  \/ RecvSessionCreated(TeardownIn.session_created, TeardownIn.watch)
  \/ Inject(TeardownIn.names, TeardownIn.args, TeardownIn.outputs, TeardownIn.silents,
            TeardownIn.modalities, TeardownIn.watch)
  \/ \E i \in TaskIds : TaskStart(i)
  \/ \E i \in TaskIds : TaskLoaded(i)
  \/ \E i \in TaskIds : TaskSent(i)
  \/ AudioToVoicelive
  \/ SenderStep
  \/ WsClose
  \/ RecvEnd

SpecTeardown == Init /\ [][NextTeardown]_vars

\* the receive loop has ended and cleared self.ws
TornDown == rx = "done" /\ ws = "NONE"

\* C39 as stated: after the receive loop has ended and cleared self.ws, no
\* step writes upstream, no step fails, and no step sets the in-flight flag.
C39_DroppedWithoutError ==
  [][TornDown =>
       /\ sent' = <<>>
       /\ tx' = tx
       /\ IsInject(last') => last'.outcome = "ok"
       /\ response_in_progress' => response_in_progress]_vars

\* C39: after the receive loop has ended and cleared self.ws, no step
\* writes upstream and none sets the in-flight flag; the sender loop drops
\* what it takes from the queue and goes on; a call of inject_tool_result
\* fails with RuntimeError, returning no call id and scheduling nothing.
C39_NothingWrittenAfterTeardown ==
  [][TornDown =>
       /\ sent' = <<>>
       /\ tx' = tx
       /\ (last'.type = "sender_step") => ~drained'[Len(drained')].written
       /\ IsInject(last') =>
            /\ last'.outcome = "RuntimeError"
            /\ last'.call_id = None
            /\ UNCHANGED ctx_vars
       /\ response_in_progress' => response_in_progress]_vars

\* the sender loop took an audio command from the queue after the teardown,
\* dropped it and went on
C39_DroppedAfterTeardown ==
  /\ TornDown
  /\ last.type = "sender_step"
  /\ sent = <<>>
  /\ ~drained[Len(drained)].written
  /\ tx = "running"
  /\ ~response_in_progress


(***************************************************************************)
(* The greeting and the pending document, checked under SpecSession.       *)
(***************************************************************************)

\* a session.created is being dispatched on an open connection for the
\* first time, and a document is pending
FirstSessionCreatedWithPending ==
  /\ IsSessionCreated(last')
  /\ ~sent_auto_greeting
  /\ pending_background_payload # NoPayload
  /\ ws = "OPEN"

\* C40 as stated: that dispatch writes the greeting response.create and
\* then the system message of the document.
C40_GreetingThenContext ==
  [][FirstSessionCreatedWithPending =>
       sent' = <<ResponseCreate, BackgroundMessage(pending_background_payload)>>]_vars

\* C40: that dispatch writes the system message of the document last, and
\* before it the greeting response.create, unless a response is already in
\* flight, in which case no greeting is written.
C40_GreetingIfAnyThenContext ==
  [][FirstSessionCreatedWithPending =>
       sent' = (IF response_in_progress THEN <<>> ELSE <<ResponseCreate>>)
                 \o <<BackgroundMessage(pending_background_payload)>>]_vars

\* the first session.created of a relay, no response in flight before it:
\* the greeting was written first and the document of the default patient
\* second, and the relay is registered under S1
C40_GreetedBeforeContext ==
  /\ IsSessionCreated(last)
  /\ last.id = "S1"
  /\ Len(sent) = 2
  /\ sent[1] = ResponseCreate
  /\ IsItem(sent[2], "message")
  /\ sent_auto_greeting
  /\ response_in_progress
  /\ mrr_since_terminal = 1
  /\ ACTIVE_HANDLERS["S1"] = Self
  /\ ACTIVE_HANDLERS["S2"] = NoHandler
====
